---- MODULE Spec2Model ----
(***************************************************************************)
(* The LLM-response reliability layer of the dashboard: the cached,       *)
(* retrying server functions generateVisualization, generateAuto-         *)
(* Visualizations, generateResponse and analyzeData, with their           *)
(* validation of the model's answer and their fallback generators.        *)
(*                                                                         *)
(* A JavaScript string is a sequence of one-character strings, so that    *)
(* substring, includes, toLowerCase, JSON.stringify and Number are        *)
(* computed and not assumed.  The text the language model returns is the  *)
(* environment's choice; it is given by what the code reads from it: the  *)
(* JSON value it parses to (or that it does not parse), and what the      *)
(* regular expressions of extractVisualizationFromText find in it.        *)
(***************************************************************************)
EXTENDS Integers, Sequences, FiniteSets, TLC

\* ------------------------------------------------------------------------
\* JavaScript strings and arrays
\* ------------------------------------------------------------------------

Min(a, b) == IF a <= b THEN a ELSE b

\* Array.prototype.slice(0, k) and String.prototype.substring(0, k)
Slice(s, k) == SubSeq(s, 1, Min(k, Len(s)))

\* String.prototype.includes
Includes(s, sub) ==
    \E i \in 0..(Len(s) - Len(sub)) : SubSeq(s, i + 1, i + Len(sub)) = sub

UpperChars == <<"A", "B", "C", "D", "E", "F", "G", "H", "I", "J", "K", "L", "M",
                "N", "O", "P", "Q", "R", "S", "T", "U", "V", "W", "X", "Y", "Z">>
LowerChars == <<"a", "b", "c", "d", "e", "f", "g", "h", "i", "j", "k", "l", "m",
                "n", "o", "p", "q", "r", "s", "t", "u", "v", "w", "x", "y", "z">>

\* String.prototype.toLowerCase
ToLowerCase(s) ==
    [i \in 1..Len(s) |->
        IF \E k \in 1..Len(UpperChars) : UpperChars[k] = s[i]
        THEN LowerChars[CHOOSE k \in 1..Len(UpperChars) : UpperChars[k] = s[i]]
        ELSE s[i]]

IsSpace(c) == c \in {" ", "\t", "\n"}

RECURSIVE TrimStart(_)
TrimStart(s) == IF s # <<>> /\ IsSpace(Head(s)) THEN TrimStart(Tail(s)) ELSE s

RECURSIVE TrimEnd(_)
TrimEnd(s) ==
    IF s # <<>> /\ IsSpace(s[Len(s)]) THEN TrimEnd(SubSeq(s, 1, Len(s) - 1)) ELSE s

\* String.prototype.trim
Trim(s) == TrimEnd(TrimStart(s))

DigitChars == <<"0", "1", "2", "3", "4", "5", "6", "7", "8", "9">>

IsDigit(c) == \E k \in 1..10 : DigitChars[k] = c

DigitValue(c) == (CHOOSE k \in 1..10 : DigitChars[k] = c) - 1

\* String(n) of a non-negative integer
RECURSIVE NumberToString(_)
NumberToString(n) ==
    IF n < 10 THEN <<DigitChars[n + 1]>>
    ELSE NumberToString(n \div 10) \o <<DigitChars[(n % 10) + 1]>>

RECURSIVE DigitsToNumber(_)
DigitsToNumber(s) ==
    IF s = <<>> THEN 0
    ELSE 10 * DigitsToNumber(SubSeq(s, 1, Len(s) - 1)) + DigitValue(s[Len(s)])

\* Array.prototype.join
RECURSIVE Join(_, _)
Join(parts, sep) ==
    IF parts = <<>> THEN <<>>
    ELSE IF Len(parts) = 1 THEN parts[1]
    ELSE parts[1] \o sep \o Join(Tail(parts), sep)

\* Array.from(new Set(xs)): the distinct elements in first-occurrence order
RECURSIVE Unique(_)
Unique(xs) ==
    IF xs = <<>> THEN <<>>
    ELSE LET init == Unique(SubSeq(xs, 1, Len(xs) - 1))
             last == xs[Len(xs)]
         IN  IF \E j \in 1..Len(init) : init[j] = last THEN init
             ELSE Append(init, last)

RECURSIVE SumSeq(_)
SumSeq(xs) == IF xs = <<>> THEN 0 ELSE Head(xs) + SumSeq(Tail(xs))

\* ------------------------------------------------------------------------
\* JavaScript values held by the records of a data sample
\* ------------------------------------------------------------------------

Num(n)    == [t |-> "number", n |-> n, s |-> <<>>, nan |-> FALSE]
NaN       == [t |-> "number", n |-> 0, s |-> <<>>, nan |-> TRUE]
Str(s)    == [t |-> "string", n |-> 0, s |-> s, nan |-> FALSE]
Null      == [t |-> "null", n |-> 0, s |-> <<>>, nan |-> FALSE]
Undefined == [t |-> "undefined", n |-> 0, s |-> <<>>, nan |-> FALSE]

\* typeof v
TypeOf(v) == IF v.t = "null" THEN "object" ELSE v.t

\* Number(v): the empty and the blank string are 0, a string of digits is its
\* value, any other string is NaN; null is 0 and undefined is NaN.
ToNumber(v) ==
    CASE v.t = "number" -> v
      [] v.t = "string" ->
            LET body == Trim(v.s)
            IN  IF \A i \in 1..Len(body) : IsDigit(body[i])
                THEN Num(DigitsToNumber(body)) ELSE NaN
      [] v.t = "null" -> Num(0)
      [] OTHER -> NaN

IsNaN(v) == v.nan

\* Boolean(v)
Truthy(v) ==
    CASE v.t = "number" -> ~v.nan /\ v.n # 0
      [] v.t = "string" -> v.s # <<>>
      [] OTHER -> FALSE

\* String(v)
StringOf(v) ==
    CASE v.t = "number" -> IF v.nan THEN <<"N", "a", "N">> ELSE NumberToString(v.n)
      [] v.t = "string" -> v.s
      [] v.t = "null" -> <<"n", "u", "l", "l">>
      [] OTHER -> <<"u", "n", "d", "e", "f", "i", "n", "e", "d">>

\* a === b
StrictEquals(a, b) == a = b /\ ~a.nan

\* Number(v) || 0
NumberOrZero(v) == IF IsNaN(ToNumber(v)) THEN 0 ELSE ToNumber(v).n

\* A record of a data sample: null, or its fields in insertion order.
Row(fields) == [isNull |-> FALSE, fields |-> fields]
NullRow     == [isNull |-> TRUE, fields |-> <<>>]
Field(k, v) == [key |-> k, val |-> v]

\* Object.keys(row)
Keys(row) == [i \in 1..Len(row.fields) |-> row.fields[i].key]

\* row[key]
Get(row, key) ==
    IF \E i \in 1..Len(row.fields) : row.fields[i].key = key
    THEN row.fields[CHOOSE i \in 1..Len(row.fields) : row.fields[i].key = key].val
    ELSE Undefined

\* The data handed to a server function: undefined, one nested mapping, or an
\* array of records.
UndefinedData   == [t |-> "undefined", rows |-> <<>>]
ObjectData(row) == [t |-> "object", rows |-> <<row>>]
ArrayData(rows) == [t |-> "array", rows |-> rows]

IsArray(data) == data.t = "array"

\* Reading a property of a null record throws a TypeError.
HasNullRow(data) == \E i \in 1..Len(data.rows) : data.rows[i].isNull

\* JSON.stringify of a value, a record and a data sample (no indentation)
Quote(s) == <<"\"">> \o s \o <<"\"">>

StringifyValue(v) ==
    CASE v.t = "number" -> NumberToString(v.n)
      [] v.t = "string" -> Quote(v.s)
      [] OTHER -> <<"n", "u", "l", "l">>

StringifyRow(row) ==
    IF row.isNull THEN <<"n", "u", "l", "l">>
    ELSE <<"{">>
         \o Join([i \in 1..Len(row.fields) |->
                    Quote(row.fields[i].key) \o <<":">>
                    \o StringifyValue(row.fields[i].val)], <<",">>)
         \o <<"}">>

\* Defined for data that is not undefined: JSON.stringify(undefined) is
\* undefined, and taking its substring throws.
JsonStringify(data) ==
    IF data.t = "object" THEN StringifyRow(data.rows[1])
    ELSE <<"[">>
         \o Join([i \in 1..Len(data.rows) |-> StringifyRow(data.rows[i])], <<",">>)
         \o <<"]">>

\* ------------------------------------------------------------------------
\* Field classification (from the first record only)
\* ------------------------------------------------------------------------

InSeq(x, s) == \E i \in 1..Len(s) : s[i] = x

EmptyString == Str(<<>>)

\* !isNaN(Number(data[0][field])) && data[0][field] !== ""
IsNumericValue(v) == ~IsNaN(ToNumber(v)) /\ v # EmptyString

NumericFields(first) ==
    SelectSeq(Keys(first), LAMBDA k : IsNumericValue(Get(first, k)))

CategoricalFields(first) ==
    SelectSeq(Keys(first),
              LAMBDA k : TypeOf(Get(first, k)) = "string"
                         /\ ~InSeq(k, NumericFields(first)))

\* ------------------------------------------------------------------------
\* Visualization configurations
\* ------------------------------------------------------------------------

\* The value of data.labels or data.values in a configuration: an array, a
\* truthy value that is no array ("other"), or absent/falsy ("missing").
Arr(items) == [k |-> "array", items |-> items]
NotAnArray == [k |-> "other", items |-> <<>>]
Missing    == [k |-> "missing", items |-> <<>>]

\* type is the chart kind as text ("" when absent); of the title only its
\* presence is kept; hasData tells whether the data object is present.
Config(type, hasTitle, labels, values) ==
    [type |-> type, hasTitle |-> hasTitle, hasData |-> TRUE,
     labels |-> labels, values |-> values]

ChartKinds == {"bar", "line", "pie", "donut"}

\* ------------------------------------------------------------------------
\* generateFallbackVisualization (single chart)
\* ------------------------------------------------------------------------

DefaultFallback ==
    Config("bar", TRUE,
           Arr(<< <<"I", "n", "d", "i", "c", "a", "t", "o", "r", " ", "1">>,
                  <<"I", "n", "d", "i", "c", "a", "t", "o", "r", " ", "2">>,
                  <<"I", "n", "d", "i", "c", "a", "t", "o", "r", " ", "3">>,
                  <<"I", "n", "d", "i", "c", "a", "t", "o", "r", " ", "4">>,
                  <<"I", "n", "d", "i", "c", "a", "t", "o", "r", " ", "5">> >>),
           Arr(<<12, 19, 3, 5, 2>>))

\* The chart kind read from the request: pie is looked for first, then line,
\* then donut.
ChartTypeOf(request) ==
    LET q == ToLowerCase(request)
    IN  IF Includes(q, <<"p", "i", "e">>)
           \/ Includes(q, <<"d", "i", "s", "t", "r", "i", "b", "u", "t", "i", "o", "n">>)
        THEN "pie"
        ELSE IF Includes(q, <<"l", "i", "n", "e">>)
                \/ Includes(q, <<"t", "r", "e", "n", "d">>)
        THEN "line"
        ELSE IF Includes(q, <<"d", "o", "n", "u", "t">>) THEN "donut"
        ELSE "bar"

FallbackCategoricalFields(first) ==
    SelectSeq(Keys(first),
              LAMBDA k : TypeOf(Get(first, k)) = "string"
                         /\ ToLowerCase(k) \notin {<<"i", "d">>, <<"u", "u", "i", "d">>,
                                                   <<"g", "u", "i", "d">>})

FallbackNumericFields(first) ==
    SelectSeq(Keys(first),
              LAMBDA k : IsNumericValue(Get(first, k))
                         /\ ToLowerCase(k) \notin {<<"i", "d">>,
                                                   <<"l", "e", "v", "e", "l">>})

\* The first field the request mentions, else the first field.
SelectField(fields, request) ==
    LET mentioned == SelectSeq(fields,
                        LAMBDA f : Includes(ToLowerCase(request), ToLowerCase(f)))
    IN  IF mentioned # <<>> THEN mentioned[1] ELSE fields[1]

\* CategoriesOf without .filter(Boolean).
CategoriesOfUnfiltered(data, field, cap) ==
    Slice(Unique([i \in 1..Len(data.rows) |-> Get(data.rows[i], field)]), cap)

\* Array.from(new Set(data.map(item => item[field]))).filter(Boolean).slice(0, cap)
CategoriesOf(data, field, cap) ==
    Slice(SelectSeq(Unique([i \in 1..Len(data.rows) |-> Get(data.rows[i], field)]),
                    Truthy),
          cap)

\* The sum of Number(item[numField]) || 0 over the records picked by Match.
SumWhere(data, numField, Match(_)) ==
    SumSeq([i \in 1..Len(data.rows) |->
              IF Match(data.rows[i]) THEN NumberOrZero(Get(data.rows[i], numField))
              ELSE 0])

FallbackCategoryCap == 7

FallbackLabels(data, catField) ==
    LET cats == CategoriesOf(data, catField, FallbackCategoryCap)
    IN  [i \in 1..Len(cats) |-> StringOf(cats[i])]

FallbackSums(data, catField, numField) ==
    LET labels == FallbackLabels(data, catField)
    IN  [i \in 1..Len(labels) |->
           SumWhere(data, numField,
                    LAMBDA item : StringOf(Get(item, catField)) = labels[i])]

\* Whether the fallback builds its chart from the data: an array of records,
\* none of them null, whose first record has a categorical and a numeric field
\* and whose selected categorical field has a truthy value.
FallbackUsesData(data, request) ==
    /\ IsArray(data) /\ Len(data.rows) > 0
    /\ ~HasNullRow(data)
    /\ FallbackCategoricalFields(data.rows[1]) # <<>>
    /\ FallbackNumericFields(data.rows[1]) # <<>>
    /\ FallbackLabels(data,
            SelectField(FallbackCategoricalFields(data.rows[1]), request)) # <<>>

\* How many times Math.random() is drawn: once per category whose sum is 0.
RandomDrawsNeeded(data, request) ==
    IF ~FallbackUsesData(data, request) THEN 0
    ELSE LET cat  == SelectField(FallbackCategoricalFields(data.rows[1]), request)
             num  == SelectField(FallbackNumericFields(data.rows[1]), request)
             sums == FallbackSums(data, cat, num)
         IN  Cardinality({i \in 1..Len(sums) : sums[i] = 0})

\* GenerateFallbackVisualization that replaces every sum by a random value
\* as soon as one sum is 0.
GenerateFallbackVisualizationAllRandom(data, request, rnd) ==
    IF ~FallbackUsesData(data, request) THEN DefaultFallback
    ELSE LET cat    == SelectField(FallbackCategoricalFields(data.rows[1]), request)
             num    == SelectField(FallbackNumericFields(data.rows[1]), request)
             labels == FallbackLabels(data, cat)
             sums   == FallbackSums(data, cat, num)
         IN  Config(ChartTypeOf(request), TRUE, Arr(labels),
                    Arr([i \in 1..Len(labels) |->
                           IF rnd = <<>> THEN sums[i] ELSE rnd[1]]))

\* rnd[k] is the k-th value of Math.floor(Math.random() * 100).
GenerateFallbackVisualization(data, request, rnd) ==
    IF ~FallbackUsesData(data, request) THEN DefaultFallback
    ELSE LET cat    == SelectField(FallbackCategoricalFields(data.rows[1]), request)
             num    == SelectField(FallbackNumericFields(data.rows[1]), request)
             labels == FallbackLabels(data, cat)
             sums   == FallbackSums(data, cat, num)
             draw(i) == Cardinality({j \in 1..i : sums[j] = 0})
         IN  Config(ChartTypeOf(request), TRUE, Arr(labels),
                    Arr([i \in 1..Len(labels) |->
                           IF sums[i] # 0 THEN sums[i] ELSE rnd[draw(i)]]))

\* ------------------------------------------------------------------------
\* generateFallbackVisualizations (batch)
\* ------------------------------------------------------------------------

BatchCategoryCap == 8

MaxFallbackVisualizations == 5

\* /^\d{4}(-\d{2})?(-\d{2})?$/
IsDateLike(s) ==
    LET digits(a, b) == \A i \in a..b : IsDigit(s[i])
    IN  \/ Len(s) = 4 /\ digits(1, 4)
        \/ Len(s) = 7 /\ digits(1, 4) /\ s[5] = "-" /\ digits(6, 7)
        \/ Len(s) = 10 /\ digits(1, 4) /\ s[5] = "-" /\ digits(6, 7)
                       /\ s[8] = "-" /\ digits(9, 10)

\* BatchNumField that steps with the combination as the categorical field does.
BatchNumFieldInStep(catFields, numFields, i) == numFields[(i % Len(numFields)) + 1]

\* The fields of combination i (0-based).
BatchCatField(catFields, i) == catFields[(i % Len(catFields)) + 1]
BatchNumField(catFields, numFields, i) ==
    numFields[((i \div Len(catFields)) % Len(numFields)) + 1]

\* BatchChartType that looks at the dates before the number of categories.
BatchChartTypeDatesFirst(categories, i) ==
    IF \E k \in 1..Len(categories) : IsDateLike(StringOf(categories[k]))
    THEN "line"
    ELSE IF Len(categories) <= 5 THEN (IF i % 2 = 0 THEN "pie" ELSE "donut")
    ELSE "bar"

BatchChartType(categories, i) ==
    IF Len(categories) <= 5 THEN (IF i % 2 = 0 THEN "pie" ELSE "donut")
    ELSE IF \E k \in 1..Len(categories) : IsDateLike(StringOf(categories[k]))
    THEN "line"
    ELSE "bar"

\* The visualization of combination i; used only when it has a category.
BatchVisualization(data, catFields, numFields, i) ==
    LET catField   == BatchCatField(catFields, i)
        numField   == BatchNumField(catFields, numFields, i)
        categories == CategoriesOf(data, catField, BatchCategoryCap)
    IN  Config(BatchChartType(categories, i), TRUE,
               Arr([k \in 1..Len(categories) |-> StringOf(categories[k])]),
               Arr([k \in 1..Len(categories) |->
                      SumWhere(data, numField,
                               LAMBDA item : StrictEquals(Get(item, catField),
                                                          categories[k]))]))

\* BatchFrom without the `continue` on a combination that has no category.
BatchFromUnskipped(data, catFields, numFields, from, upTo) ==
    [i \in 1..(upTo - from) |->
        BatchVisualization(data, catFields, numFields, from + i - 1)]

\* The combinations i in from..upTo-1 that have a category, in order.
RECURSIVE BatchFrom(_, _, _, _, _)
BatchFrom(data, catFields, numFields, from, upTo) ==
    IF from >= upTo THEN <<>>
    ELSE LET rest == BatchFrom(data, catFields, numFields, from + 1, upTo)
         IN  IF CategoriesOf(data, BatchCatField(catFields, from), BatchCategoryCap) = <<>>
             THEN rest
             ELSE <<BatchVisualization(data, catFields, numFields, from)>> \o rest

\* A null record makes the first combination throw inside the try block, and
\* the catch returns the empty list.
GenerateFallbackVisualizations(data, catFields, numFields) ==
    LET maxVisualizations ==
            Min(MaxFallbackVisualizations, Len(catFields) * Len(numFields))
    IN  IF maxVisualizations = 0 \/ HasNullRow(data) THEN <<>>
        ELSE BatchFrom(data, catFields, numFields, 0, maxVisualizations)

\* ------------------------------------------------------------------------
\* The requests and data samples the callers hand in
\* ------------------------------------------------------------------------

RegionKey == <<"r", "e", "g", "i", "o", "n">>
CasesKey  == <<"c", "a", "s", "e", "s">>
LevelKey  == <<"l", "e", "v", "e", "l">>
NameKey   == <<"n", "a", "m", "e">>
TotalKey  == <<"t", "o", "t", "a", "l">>
NoteKey   == <<"n", "o", "t", "e">>

\* The numbers that size the sample inputs.
ManyRows       == 9
LongNoteLength == 200
MaxArr         == 2

\* "show a bar chart of cases by region", "donut distribution of total"
\* and "trend"
RequestText ==
    [bar   |-> <<"s", "h", "o", "w", " ", "a", " ", "b", "a", "r", " ", "c", "h", "a", "r", "t", " ", "o", "f", " ", "c", "a", "s", "e", "s", " ", "b", "y", " ", "r", "e", "g", "i", "o", "n">>,
     mixed |-> <<"d", "o", "n", "u", "t", " ", "d", "i", "s", "t", "r", "i", "b", "u", "t", "i", "o", "n", " ", "o", "f", " ", "t", "o", "t", "a", "l">>,
     trend |-> <<"t", "r", "e", "n", "d">>]

RegionRow(region, cases) ==
    Row(<<Field(RegionKey, Str(region)), Field(CasesKey, Num(cases))>>)

LongNote == Str([i \in 1..LongNoteLength |-> "a"])

DataSample ==
    [undefined |-> UndefinedData,
     empty     |-> ArrayData(<<>>),
     object    |-> ObjectData(Row(<<Field(TotalKey, Num(5))>>)),
     example   |-> ArrayData(<<RegionRow(<<"A">>, 10), RegionRow(<<"B">>, 20),
                               RegionRow(<<"C">>, 5)>>),
     zeroSum   |-> ArrayData(<<RegionRow(<<"A">>, 3), RegionRow(<<"B">>, 0),
                               RegionRow(<<"A">>, 4)>>),
     twoFields |-> ArrayData(<<
                     Row(<<Field(NameKey, Str(<<"n">>)), Field(TotalKey, Num(7)),
                           Field(RegionKey, Str(<<"A">>)), Field(CasesKey, Num(10))>>),
                     Row(<<Field(NameKey, Str(<<"m">>)), Field(TotalKey, Num(1)),
                           Field(RegionKey, Str(<<"A">>)), Field(CasesKey, Num(20))>>) >>),
     noCategorical |-> ArrayData(<<Row(<<Field(CasesKey, Num(10)),
                                         Field(LevelKey, Num(2))>>)>>),
     noNumeric |-> ArrayData(<<Row(<<Field(RegionKey, Str(<<"A">>))>>)>>),
     blank     |-> ArrayData(<<RegionRow(<<>>, 1)>>),
     nullFirst |-> ArrayData(<<NullRow, RegionRow(<<"A">>, 1)>>),
     nullLater |-> ArrayData(<<RegionRow(<<"A">>, 1), NullRow>>),
     many      |-> ArrayData([i \in 1..ManyRows |-> RegionRow(<<LowerChars[i]>>, i)]),
     long      |-> ArrayData(<<Row(<<Field(NoteKey, LongNote),
                                     Field(RegionKey, Str(<<"A">>)),
                                     Field(CasesKey, Num(3))>>)>>),
     longOnly  |-> ArrayData(<<Row(<<Field(NoteKey, LongNote)>>)>>),
     years     |-> ArrayData(<<RegionRow(<<"2", "0", "2", "0">>, 4),
                               RegionRow(<<"2", "0", "2", "1">>, 6)>>),
     months    |-> ArrayData(<<RegionRow(<<"2", "0", "2", "0", "-", "0", "1">>, 4),
                               RegionRow(<<"2", "0", "2", "0", "-", "0", "2">>, 6)>>),
     manyYears |-> ArrayData([i \in 1..6 |->
                      RegionRow(IF i = 3 THEN <<"2", "0", "2", "0", "-", "0", "1">>
                                ELSE <<LowerChars[i]>>, i)])]

\* ------------------------------------------------------------------------
\* The answers of the language model
\* ------------------------------------------------------------------------

\* A candidate configuration as JSON.parse gives it: null, or an object whose
\* type, title, data, data.labels and data.values may be absent.
Cand(type, hasTitle, hasData, labels, values) ==
    [isNull |-> FALSE, type |-> type, hasTitle |-> hasTitle, hasData |-> hasData,
     labels |-> labels, values |-> values]
NullCand == [isNull |-> TRUE, type |-> "", hasTitle |-> FALSE, hasData |-> FALSE,
             labels |-> Missing, values |-> Missing]

ConfigOf(cand) ==
    [type |-> cand.type, hasTitle |-> cand.hasTitle, hasData |-> cand.hasData,
     labels |-> cand.labels, values |-> cand.values]

LabelAt(i) == <<LowerChars[i]>>
LabelsTo(m) == [i \in 1..m |-> LabelAt(i)]
ValuesTo(n) == [i \in 1..n |-> i]

\* {"type":"pie","title":"T","description":"D",
\*  "data":{"labels":["x","y","z"],"values":[1,2]}}
ExampleCand == Cand("pie", TRUE, TRUE, Arr(<< <<"x">>, <<"y">>, <<"z">> >>), Arr(<<1, 2>>))

WellFormedCands ==
    {Cand("bar", TRUE, TRUE, Arr(LabelsTo(m)), Arr(ValuesTo(n))) :
        m \in 0..MaxArr, n \in 0..MaxArr}
    \cup {ExampleCand, Cand("scatter", TRUE, TRUE, Arr(LabelsTo(1)), Arr(ValuesTo(1)))}

DefectiveCands ==
    {Cand("", TRUE, TRUE, Arr(LabelsTo(1)), Arr(ValuesTo(1))),
     Cand("bar", FALSE, TRUE, Arr(LabelsTo(1)), Arr(ValuesTo(1))),
     Cand("bar", TRUE, FALSE, Missing, Missing),
     Cand("bar", TRUE, TRUE, Missing, Arr(ValuesTo(1))),
     Cand("bar", TRUE, TRUE, Arr(LabelsTo(1)), Missing),
     Cand("bar", TRUE, TRUE, NotAnArray, Arr(ValuesTo(1))),
     Cand("bar", TRUE, TRUE, Arr(LabelsTo(1)), NotAnArray)}

\* What the regular expressions of extractVisualizationFromText find in a
\* text: the chart kind ("" when none), and the quoted labels and the numbers
\* of the first "labels" and "values" arrays (both empty unless both match).
Found(type, labels, values) == [type |-> type, labels |-> labels, values |-> values]

FoundSamples ==
    {Found("", <<>>, <<>>),
     Found("line", LabelsTo(2), ValuesTo(2)),
     Found("", LabelsTo(2), ValuesTo(1)),
     Found("", LabelsTo(6), ValuesTo(6))}

\* A failed model call: whether the message holds "Rate limit reached", and
\* what it holds between "Please try again in " and the next "s" (nothing
\* when it has no such phrase).
ModelError(rateLimit, suggestion) ==
    [kind |-> "error", rateLimit |-> rateLimit, suggestion |-> suggestion,
     hasSpan |-> FALSE, parses |-> FALSE, cands |-> <<>>,
     found |-> Found("", <<>>, <<>>), text |-> <<>>]

\* A returned text: hasSpan tells whether the JSON span is found in it (the
\* first "{" to the last "}" for one chart, the array pattern for a batch),
\* parses whether the repaired span parses, cands the parsed value.
ModelText(hasSpan, parses, cands, found, text) ==
    [kind |-> "text", rateLimit |-> FALSE, suggestion |-> <<>>,
     hasSpan |-> hasSpan, parses |-> parses, cands |-> cands,
     found |-> found, text |-> text]

ModelErrors ==
    {ModelError(FALSE, <<>>), ModelError(FALSE, <<"2", ".", "5">>),
     ModelError(TRUE, <<>>), ModelError(TRUE, <<"2", ".", "5">>),
     ModelError(TRUE, <<"5">>)}

SingleChartTexts ==
    {ModelText(FALSE, FALSE, <<>>, Found("", <<>>, <<>>), <<>>)}
    \cup {ModelText(TRUE, FALSE, <<>>, f, <<>>) : f \in FoundSamples}
    \cup {ModelText(TRUE, TRUE, <<c>>, Found("", <<>>, <<>>), <<>>) :
            c \in WellFormedCands \cup DefectiveCands}
    \cup {ModelText(TRUE, TRUE,
                    <<Cand("", TRUE, TRUE, Arr(LabelsTo(2)), Arr(ValuesTo(2)))>>,
                    Found("", LabelsTo(2), ValuesTo(2)), <<>>)}

BatchTexts ==
    {ModelText(FALSE, FALSE, <<>>, Found("", <<>>, <<>>), <<>>),
     ModelText(TRUE, FALSE, <<>>, Found("", <<>>, <<>>), <<>>)}
    \cup {ModelText(TRUE, TRUE, cs, Found("", <<>>, <<>>), <<>>) :
            cs \in {<<ExampleCand>>,
                    <<Cand("bar", TRUE, TRUE, Arr(<<>>), Arr(<<>>))>>,
                    <<Cand("bar", FALSE, TRUE, Arr(LabelsTo(1)), Arr(ValuesTo(1))),
                      Cand("line", TRUE, TRUE, Arr(LabelsTo(1)), Arr(ValuesTo(2))),
                      Cand("bar", TRUE, TRUE, NotAnArray, Arr(ValuesTo(1)))>>,
                    <<Cand("bar", TRUE, FALSE, Missing, Missing)>>,
                    <<ExampleCand, NullCand, ExampleCand>>,
                    <<Cand("bar", FALSE, TRUE, Arr(LabelsTo(1)), Arr(ValuesTo(1))),
                      NullCand,
                      Cand("bar", FALSE, TRUE, Arr(LabelsTo(1)), Arr(ValuesTo(1)))>>,
                    [i \in 1..4 |-> Cand("bar", TRUE, TRUE, Arr(LabelsTo(i % 3)),
                                         Arr(ValuesTo(i % 3)))],
                    <<Cand("bar", FALSE, TRUE, Arr(LabelsTo(1)), Arr(ValuesTo(1))),
                      Cand("bar", TRUE, TRUE, Arr(LabelsTo(1)), Arr(ValuesTo(1))),
                      Cand("line", TRUE, TRUE, Arr(LabelsTo(2)), Arr(ValuesTo(2))),
                      Cand("pie", TRUE, TRUE, Arr(LabelsTo(1)), NotAnArray),
                      Cand("pie", TRUE, TRUE, Arr(LabelsTo(3)), Arr(ValuesTo(3))),
                      Cand("donut", TRUE, TRUE, Arr(LabelsTo(1)), Arr(ValuesTo(1)))>>}}

\* " ok " and the empty text
PlainTexts ==
    {ModelText(FALSE, FALSE, <<>>, Found("", <<>>, <<>>), <<" ", "o", "k", " ">>),
     ModelText(FALSE, FALSE, <<>>, Found("", <<>>, <<>>), <<>>)}

\* ------------------------------------------------------------------------
\* Validation, normalisation and extraction
\* ------------------------------------------------------------------------

\* generateVisualization: the checks that throw when they fail.
ValidConfiguration(cand) ==
    /\ cand.type # "" /\ cand.hasTitle /\ cand.hasData
    /\ cand.labels.k # "missing" /\ cand.values.k # "missing"
    /\ cand.labels.k = "array" /\ cand.values.k = "array"

\* NormalizeLengths without the cut.
NormalizeLengthsKept(config) == config

\* Both arrays cut to the shorter length.
NormalizeLengths(config) ==
    IF Len(config.labels.items) # Len(config.values.items)
    THEN LET minLength == Min(Len(config.labels.items), Len(config.values.items))
         IN  [config EXCEPT !.labels = Arr(Slice(config.labels.items, minLength)),
                            !.values = Arr(Slice(config.values.items, minLength))]
    ELSE config

\* The first revision of generateVisualization checks presence only.
ValidLegacyConfiguration(cand) ==
    /\ cand.type # "" /\ cand.hasTitle /\ cand.hasData
    /\ cand.labels.k # "missing" /\ cand.values.k # "missing"

\* generateAutoVisualizations: the filter of the parsed array.
ValidBatchEntry(cand) ==
    /\ cand.type # "" /\ cand.hasTitle /\ cand.hasData
    /\ cand.labels.k = "array" /\ cand.values.k = "array"

MaxBatchResults == 3

\* ValidVisualizations that keeps the last three instead of the first.
ValidVisualizationsFromEnd(cands) ==
    LET kept == SelectSeq(cands, ValidBatchEntry)
        from == IF Len(kept) > MaxBatchResults THEN Len(kept) - MaxBatchResults + 1 ELSE 1
    IN  [i \in 1..(Len(kept) - from + 1) |->
            NormalizeLengths(ConfigOf(kept[from + i - 1]))]

ValidVisualizations(cands) ==
    LET kept == SelectSeq(cands, ValidBatchEntry)
    IN  Slice([i \in 1..Len(kept) |-> NormalizeLengths(ConfigOf(kept[i]))],
              MaxBatchResults)

MaxExtractedLabels == 5

\* extractVisualizationFromText: [ok |-> FALSE] stands for null.
ExtractVisualizationFromText(found) ==
    LET labels == Slice(found.labels, MaxExtractedLabels)
        values == Slice(found.values, Len(labels))
    IN  IF labels = <<>> \/ values = <<>> \/ Len(labels) # Len(values)
        THEN [ok |-> FALSE, config |-> DefaultFallback]
        ELSE [ok |-> TRUE,
              config |-> Config(IF found.type = "" THEN "bar" ELSE found.type,
                                TRUE, Arr(labels), Arr(values))]

\* Number.parseFloat("<digits>.<digits>") * 1000, for up to three decimals
ParseSecondsAsMs(s) ==
    LET dot   == CHOOSE i \in 1..Len(s) : s[i] = "."
        whole == DigitsToNumber(SubSeq(s, 1, dot - 1))
        frac  == Slice(SubSeq(s, dot + 1, Len(s)) \o <<"0", "0", "0">>, 3)
    IN  whole * 1000 + DigitsToNumber(frac)

\* error.message.includes("Rate limit reached")
IsRateLimit(reply) == reply.rateLimit

\* /(\d+\.\d+)s/ after "Please try again in ": digits, a point, digits
MatchesWaitTime(s) ==
    \E dot \in 2..(Len(s) - 1) :
        /\ s[dot] = "."
        /\ \A i \in (1..Len(s)) \ {dot} : IsDigit(s[i])

\* WaitTime that does not read the message.
WaitTimeIgnored(reply, retryDelay) == retryDelay

\* waitTimeMatch ? parseFloat(waitTimeMatch[1]) * 1000 : retryDelay
WaitTime(reply, retryDelay) ==
    IF MatchesWaitTime(reply.suggestion) THEN ParseSecondsAsMs(reply.suggestion)
    ELSE retryDelay

\* ------------------------------------------------------------------------
\* The first revision's generateFallbackVisualization(data)
\* ------------------------------------------------------------------------

LegacyItemCap == 5

LegacyUsesData(data) ==
    /\ IsArray(data) /\ Len(data.rows) > 0
    /\ ~data.rows[1].isNull
    /\ InSeq(NameKey, Keys(data.rows[1]))
    /\ \A i \in 1..Min(LegacyItemCap, Len(data.rows)) : ~data.rows[i].isNull

\* keys.find(numeric and neither "id" nor "level"): <<>> when there is none
LegacyNumericField(first) ==
    SelectSeq(Keys(first),
              LAMBDA k : IsNumericValue(Get(first, k))
                         /\ k \notin {<<"i", "d">>, <<"l", "e", "v", "e", "l">>})

\* The items whose value is drawn at random: all of them without a numeric
\* field, else those whose Number(item[field]) is 0 or NaN.
LegacyRandomItems(data) ==
    LET items == Slice(data.rows, LegacyItemCap)
        nf    == LegacyNumericField(items[1])
    IN  {i \in 1..Len(items) :
            nf = <<>> \/ NumberOrZero(Get(items[i], nf[1])) = 0}

LegacyDrawsNeeded(data) ==
    IF LegacyUsesData(data) THEN Cardinality(LegacyRandomItems(data)) ELSE 0

GenerateLegacyFallback(data, rnd) ==
    IF ~LegacyUsesData(data) THEN DefaultFallback
    ELSE LET items == Slice(data.rows, LegacyItemCap)
             nf    == LegacyNumericField(items[1])
             rand  == LegacyRandomItems(data)
             draw(i) == Cardinality({j \in rand : j <= i})
             name(i) == Get(items[i], NameKey)
         IN  Config("bar", TRUE,
                    Arr([i \in 1..Len(items) |->
                           IF Truthy(name(i)) THEN StringOf(name(i))
                           ELSE <<"U", "n", "k", "n", "o", "w", "n">>]),
                    Arr([i \in 1..Len(items) |->
                           IF i \in rand THEN rnd[draw(i)]
                           ELSE NumberOrZero(Get(items[i], nf[1]))]))

\* ------------------------------------------------------------------------
\* The fixed texts of generateResponse and analyzeData
\* ------------------------------------------------------------------------

ApologyText ==
    <<"I", "'", "m", " ", "s", "o", "r", "r", "y", ",", " ", "I", " ", "e",
      "n", "c", "o", "u", "n", "t", "e", "r", "e", "d", " ", "a", " ", "r",
      "a", "t", "e", " ", "l", "i", "m", "i", "t", " ", "e", "r", "r", "o",
      "r", ".", " ", "P", "l", "e", "a", "s", "e", " ", "t", "r", "y", " ",
      "a", "g", "a", "i", "n", " ", "w", "i", "t", "h", " ", "a", " ", "m",
      "o", "r", "e", " ", "s", "p", "e", "c", "i", "f", "i", "c", " ", "q",
      "u", "e", "s", "t", "i", "o", "n", " ", "o", "r", " ", "w", "a", "i",
      "t", " ", "a", " ", "m", "o", "m", "e", "n", "t", " ", "b", "e", "f",
      "o", "r", "e", " ", "a", "s", "k", "i", "n", "g", " ", "a", "n", "o",
      "t", "h", "e", "r", " ", "q", "u", "e", "s", "t", "i", "o", "n", ".">>

AnalysisFailureText ==
    <<"F", "a", "i", "l", "e", "d", " ", "t", "o", " ", "a", "n", "a", "l",
      "y", "z", "e", " ", "t", "h", "e", " ", "d", "a", "t", "a", ".", " ",
      "T", "h", "e", " ", "d", "a", "t", "a", "s", "e", "t", " ", "m", "i",
      "g", "h", "t", " ", "b", "e", " ", "t", "o", "o", " ", "l", "a", "r",
      "g", "e", ".", " ", "T", "r", "y", " ", "u", "p", "l", "o", "a", "d",
      "i", "n", "g", " ", "a", " ", "s", "m", "a", "l", "l", "e", "r", " ",
      "f", "i", "l", "e", " ", "o", "r", " ", "a", " ", "s", "a", "m", "p",
      "l", "e", " ", "o", "f", " ", "y", "o", "u", "r", " ", "d", "a", "t",
      "a", ".">>

\* ------------------------------------------------------------------------
\* The server functions: state
\* ------------------------------------------------------------------------

\* The five server functions.  Each module keeps its own cache and shares no
\* state with the others, so a behaviour calls one of them, chosen at the
\* start (fn); its callers (Callers) may be in flight together.
Functions ==
    {"generateVisualization", "generateAutoVisualizations", "generateResponse",
     "analyzeData", "generateVisualizationLegacy"}

Callers == {"c1", "c2"}

\* const CACHE_TTL of the three modules that keep a cache
CacheTtl(f) ==
    CASE f = "generateVisualization" -> 10 * 60 * 1000
      [] f = "generateAutoVisualizations" -> 30 * 60 * 1000
      [] OTHER -> 5 * 60 * 1000

HasCache(f) ==
    f \in {"generateVisualization", "generateAutoVisualizations", "generateResponse"}

HasRetryLoop(f) == HasCache(f)

MaxRetries        == 3
InitialRetryDelay == 1000
RequestKeyPrefix  == 100
DataKeyPrefix     == 200
LimitedFields     == 3

\* Date.now() is read in steps of half a TTL, MaxTicks times at most.
MaxTicks == 2
TickLength(f) == CacheTtl(f) \div 2

\* Math.floor(Math.random() * 100) lies in 0..99; these values stand for it.
RandomDraws == {0, 42, 99}
RandomSeqs(n) == [1..n -> RandomDraws]

VARIABLES
    fn,     \* the server function called in this behaviour
    now,    \* Date.now(), in milliseconds since the start
    cache,  \* the module's Map: cache key -> [value, timestamp]
    req     \* per caller: the call in progress or completed

vars == <<fn, now, cache, req>>

NoResult        == [kind |-> "none", config |-> DefaultFallback, list |-> <<>>, text |-> <<>>]
ConfigResult(c) == [kind |-> "config", config |-> c, list |-> <<>>, text |-> <<>>]
ListResult(l)   == [kind |-> "list", config |-> DefaultFallback, list |-> l, text |-> <<>>]
TextResult(t)   == [kind |-> "text", config |-> DefaultFallback, list |-> <<>>, text |-> t]

\* pc: idle, calling (the model call is awaited), sleepingBackoff and
\* sleepingRateLimit (the timer of the retry is awaited), returned, raised.
\* attempt, retryDelay, sleepFor and lastError are the locals of the retry
\* loop, answer what the call that was awaited last came back with (an
\* error, a text without a JSON span, a span that does not parse, a parsed
\* span, a plain text; none once the next attempt is on), suggested what the message of the rate limit being slept on holds
\* after "Please try again in ".  calls, otherFails, allMalformed, via, cand and doneAt record what
\* happened: the model calls issued, the failures that were no rate limit,
\* whether every failure so far was a text of the model that the function
\* rejected, the path that produced the result, the candidates parsed from
\* the last answer, and the time of the return (-1 before).
IdleCall ==
    [pc |-> "idle", q |-> "none", d |-> "empty", attempt |-> 0, retryDelay |-> 0,
     sleepFor |-> 0, lastError |-> "none", suggested |-> <<>>, calls |-> 0,
     otherFails |-> 0, answer |-> "none",
     allMalformed |-> TRUE, via |-> "none", result |-> NoResult, cand |-> <<>>,
     doneAt |-> -1]

RequestOf(rec) == IF rec.q = "none" THEN <<>> ELSE RequestText[rec.q]
DataOf(rec)    == DataSample[rec.d]

\* CacheKey of the request and the whole serialization.
CacheKeyWhole(f, request, data) == request \o <<"-">> \o JsonStringify(data)

\* ${request}-${JSON.stringify(data).substring(0, 100)}, and for
\* generateAutoVisualizations JSON.stringify(data).substring(0, 200)
CacheKey(f, request, data) ==
    IF f = "generateAutoVisualizations" THEN Slice(JsonStringify(data), DataKeyPrefix)
    ELSE request \o <<"-">> \o Slice(JsonStringify(data), RequestKeyPrefix)

\* CacheHit with the bound included.
CacheHitInclusive(c, key, t, ttl) == key \in DOMAIN c /\ t - c[key].timestamp <= ttl

\* cached && Date.now() - cached.timestamp < CACHE_TTL
CacheHit(c, key, t, ttl) == key \in DOMAIN c /\ t - c[key].timestamp < ttl

\* CachePut that stores nothing.
CachePutDropped(c, key, value, t) == c

\* CachePut that keeps the entry a fingerprint already has.
CachePutIfAbsent(c, key, value, t) ==
    [k \in DOMAIN c \cup {key} |->
        IF k \in DOMAIN c THEN c[k] ELSE [value |-> value, timestamp |-> t]]

\* Map.prototype.set
CachePut(c, key, value, t) ==
    [k \in DOMAIN c \cup {key} |->
        IF k = key THEN [value |-> value, timestamp |-> t] ELSE c[k]]

FirstRowNull(data) == IsArray(data) /\ Len(data.rows) > 0 /\ data.rows[1].isNull

\* The inputs of the callers that run side by side: per function one or two
\* that reach the model, and those that return before any call.
Inputs(f) ==
    CASE f = "generateVisualization" ->
            {<<"bar", "example">>, <<"bar", "undefined">>, <<"bar", "nullFirst">>,
             <<"bar", "zeroSum">>}
      [] f = "generateAutoVisualizations" ->
            {<<"none", d>> : d \in {"long", "longOnly", "empty", "object", "undefined",
                                    "noCategorical", "noNumeric", "nullFirst"}}
      [] f = "generateResponse" ->
            {<<"bar", "example">>, <<"trend", "example">>, <<"bar", "undefined">>,
             <<"bar", "nullFirst">>}
      [] f = "analyzeData" ->
            {<<"none", "example">>, <<"none", "undefined">>, <<"none", "nullFirst">>}
      [] OTHER ->
            {<<"bar", "example">>, <<"bar", "nullFirst">>, <<"bar", "undefined">>}

\* The inputs of a caller that runs alone.
SingleInputs(f) ==
    Inputs(f) \cup
    CASE f = "generateVisualization" ->
            {<<"bar", "twoFields">>, <<"mixed", "twoFields">>,
             <<"trend", "many">>, <<"bar", "nullLater">>, <<"bar", "noNumeric">>,
             <<"bar", "blank">>, <<"bar", "years">>}
      [] f = "generateAutoVisualizations" ->
            {<<"none", d>> : d \in {"example", "blank", "nullLater", "many",
                                    "twoFields", "zeroSum", "years", "months",
                                    "manyYears"}}
      [] f = "generateVisualizationLegacy" ->
            {<<"bar", "twoFields">>, <<"bar", "zeroSum">>}
      [] OTHER -> {}

\* The inputs of two callers whose data agree on the start of their
\* serialization (long, longOnly) or differ there (example).
PrefixInputs(f) ==
    IF f \in {"generateAutoVisualizations", "analyzeData"}
    THEN {<<"none", d>> : d \in {"long", "longOnly", "example"}}
    ELSE {<<"bar", "long">>, <<"bar", "longOnly">>, <<"bar", "example">>,
          <<"trend", "long">>}

AllInputs == UNION {SingleInputs(f) \cup PrefixInputs(f) : f \in Functions}

\* The cache key of every input (of data that is not undefined).
CacheKeys ==
    [f \in Functions |->
        [in \in AllInputs |->
            IF DataSample[in[2]].t = "undefined" THEN <<>>
            ELSE CacheKey(f, IF in[1] = "none" THEN <<>> ELSE RequestText[in[1]],
                          DataSample[in[2]])]]

KeyOf(rec) == CacheKeys[fn][<<rec.q, rec.d>>]

\* The answers the model may give to the callers that run side by side.
Replies(f) ==
    ModelErrors \cup
    CASE f \in {"generateVisualization", "generateVisualizationLegacy"} ->
            {ModelText(FALSE, FALSE, <<>>, Found("", <<>>, <<>>), <<>>),
             ModelText(TRUE, TRUE, <<ExampleCand>>, Found("", <<>>, <<>>), <<>>)}
      [] f = "generateAutoVisualizations" ->
            {ModelText(FALSE, FALSE, <<>>, Found("", <<>>, <<>>), <<>>),
             ModelText(TRUE, TRUE, <<ExampleCand>>, Found("", <<>>, <<>>), <<>>)}
      [] OTHER -> {ModelText(FALSE, FALSE, <<>>, Found("", <<>>, <<>>), <<" ", "o", "k", " ">>)}

\* The answers the model may give to a caller that runs alone.
SingleReplies(f) ==
    ModelErrors \cup
    CASE f \in {"generateVisualization", "generateVisualizationLegacy"} -> SingleChartTexts
      [] f = "generateAutoVisualizations" -> BatchTexts
      [] OTHER -> PlainTexts

\* How often the function's fallback draws Math.random(), per input.
FallbackDraws ==
    [f \in Functions |->
        [in \in AllInputs |->
            CASE f = "generateVisualization" ->
                    RandomDrawsNeeded(DataSample[in[2]],
                                      IF in[1] = "none" THEN <<>> ELSE RequestText[in[1]])
              [] f = "generateVisualizationLegacy" -> LegacyDrawsNeeded(DataSample[in[2]])
              [] OTHER -> 0]]

DrawsFor(f, rec) == FallbackDraws[f][<<rec.q, rec.d>>]

Init ==
    /\ fn \in Functions
    /\ now = 0
    /\ cache = <<>>
    /\ req = [c \in Callers |-> IdleCall]

\* ------------------------------------------------------------------------
\* The server functions: steps
\* ------------------------------------------------------------------------

\* The call ends and hands `result` to its caller; the loop's locals are gone.
Finish(rec, via, result) ==
    [rec EXCEPT !.pc = "returned", !.via = via, !.result = result, !.doneAt = now,
                !.attempt = 0, !.retryDelay = 0, !.sleepFor = 0,
                !.lastError = "none", !.otherFails = 0]

\* What generateFallbackVisualization returns, per function, input and
\* sequence of random draws, as explicit tables of values.
CatchResults ==
    [f \in {"generateVisualization", "generateVisualizationLegacy"} |->
        [in \in AllInputs |->
            [rnd \in RandomSeqs(FallbackDraws[f][in]) |->
                IF f = "generateVisualization"
                THEN ConfigResult(GenerateFallbackVisualization(
                         DataSample[in[2]],
                         IF in[1] = "none" THEN <<>> ELSE RequestText[in[1]], rnd))
                ELSE ConfigResult(GenerateLegacyFallback(DataSample[in[2]], rnd))]
            @@ <<>>]
        @@ <<>>]
    @@ <<>>

\* OuterCatch of a function whose fallback is not guarded.
OuterCatchRethrows(f, rec, rnd) == [rec EXCEPT !.pc = "raised"]

\* OuterCatch that hands the text functions an empty text.
OuterCatchSilent(f, rec, rnd) ==
    IF f \in {"generateResponse", "analyzeData"}
    THEN Finish(rec, "catch", TextResult(<<>>))
    ELSE Finish(rec, "catch", ConfigResult(DefaultFallback))

\* The outermost catch block of each function: what the caller gets when an
\* error reaches it.
OuterCatch(f, rec, rnd) ==
    CASE f = "generateVisualization" ->
            Finish(rec, "catch", CatchResults[f][<<rec.q, rec.d>>][rnd])
      [] f = "generateAutoVisualizations" -> Finish(rec, "catch", ListResult(<<>>))
      [] f = "generateResponse" -> Finish(rec, "catch", TextResult(ApologyText))
      [] f = "analyzeData" -> Finish(rec, "catch", TextResult(AnalysisFailureText))
      [] OTHER -> Finish(rec, "catch", CatchResults[f][<<rec.q, rec.d>>][rnd])

\* FirstAttempt that starts where a request with one failure stands.
FirstAttemptResumed(rec) ==
    [rec EXCEPT !.pc = "calling", !.attempt = 1,
                !.retryDelay = 2 * InitialRetryDelay, !.calls = 1]

\* The first model call of the retry loop is issued (or the only call of a
\* function without a loop).
FirstAttempt(rec) ==
    [rec EXCEPT !.pc = "calling", !.attempt = 0, !.retryDelay = InitialRetryDelay,
                !.calls = 1]

\* The guards of generateAutoVisualizations that return [] before any call.
NotAnArrayOrEmpty(data) == ~IsArray(data) \/ Len(data.rows) = 0

\* LacksFieldKind asking for both kinds to be absent.
LacksBothFieldKinds(data) ==
    NumericFields(data.rows[1]) = <<>> /\ CategoricalFields(data.rows[1]) = <<>>


LacksFieldKind(data) ==
    NumericFields(data.rows[1]) = <<>> \/ CategoricalFields(data.rows[1]) = <<>>

\* A function's code from its entry to its first await.
Enter(f, rec, c, t, rnd) ==
    LET data == DataOf(rec)
    IN  IF HasCache(f) /\ data.t = "undefined" THEN OuterCatch(f, rec, rnd)
        ELSE IF HasCache(f) /\ CacheHit(c, KeyOf(rec), t, CacheTtl(f))
        THEN Finish(rec, "cache", c[KeyOf(rec)].value)
        ELSE IF f = "generateAutoVisualizations" /\ NotAnArrayOrEmpty(data)
        THEN Finish(rec, "guard", ListResult(<<>>))
        ELSE IF FirstRowNull(data) THEN OuterCatch(f, rec, rnd)
        ELSE IF f = "generateAutoVisualizations" /\ LacksFieldKind(data)
        THEN Finish(rec, "guard", ListResult(<<>>))
        ELSE FirstAttempt(rec)

\* Call that waits until no other caller awaits a model call or a timer.
CallWhenQuiet(c, inputs) ==
    /\ req[c].pc = "idle"
    /\ \A o \in Callers \ {c} : req[o].pc \in {"idle", "returned", "raised"}
    /\ \E in \in inputs :
         LET rec == [req[c] EXCEPT !.q = in[1], !.d = in[2]]
         IN  \E rnd \in RandomSeqs(DrawsFor(fn, rec)) :
                req' = [req EXCEPT ![c] = Enter(fn, rec, cache, now, rnd)]
    /\ UNCHANGED <<fn, now, cache>>

\* Call that refreshes the entry it hits.
CallRefreshing(c, inputs) ==
    /\ req[c].pc = "idle"
    /\ \E in \in inputs :
         LET rec == [req[c] EXCEPT !.q = in[1], !.d = in[2]]
         IN  /\ \E rnd \in RandomSeqs(DrawsFor(fn, rec)) :
                  req' = [req EXCEPT ![c] = Enter(fn, rec, cache, now, rnd)]
             /\ cache' = IF req'[c].via = "cache"
                         THEN [cache EXCEPT ![KeyOf(rec)].timestamp = now]
                         ELSE cache
    /\ UNCHANGED <<fn, now>>

\* Call that drops the entries it finds expired.
CallEvicting(c, inputs) ==
    /\ req[c].pc = "idle"
    /\ \E in \in inputs :
         LET rec == [req[c] EXCEPT !.q = in[1], !.d = in[2]]
         IN  \E rnd \in RandomSeqs(DrawsFor(fn, rec)) :
                req' = [req EXCEPT ![c] = Enter(fn, rec, cache, now, rnd)]
    /\ cache' = [k \in {j \in DOMAIN cache : now - cache[j].timestamp < CacheTtl(fn)}
                    |-> cache[k]]
    /\ UNCHANGED <<fn, now>>

\* Call that does not enter with an input another call is still working on.
CallJoining(c, inputs) ==
    /\ req[c].pc = "idle"
    /\ \E in \in inputs :
         LET rec == [req[c] EXCEPT !.q = in[1], !.d = in[2]]
         IN  /\ \A o \in Callers \ {c} :
                    req[o].pc \in {"calling", "sleepingBackoff", "sleepingRateLimit"}
                        => <<req[o].q, req[o].d>> # in
             /\ \E rnd \in RandomSeqs(DrawsFor(fn, rec)) :
                    req' = [req EXCEPT ![c] = Enter(fn, rec, cache, now, rnd)]
    /\ UNCHANGED <<fn, now, cache>>

\* A caller calls the function with a request and a data sample.
Call(c, inputs) ==
    /\ req[c].pc = "idle"
    /\ \E in \in inputs :
         LET rec == [req[c] EXCEPT !.q = in[1], !.d = in[2]]
         IN  \E rnd \in RandomSeqs(DrawsFor(fn, rec)) :
                req' = [req EXCEPT ![c] = Enter(fn, rec, cache, now, rnd)]
    /\ UNCHANGED <<fn, now, cache>>

\* HandleFailure that calls the model again at once.
HandleFailureAtOnce(rec, reply) ==
    [rec EXCEPT !.attempt = @ + 1, !.calls = @ + 1,
                !.lastError = IF IsRateLimit(reply) THEN "rateLimit" ELSE "other"]


\* The catch block of the retry loop up to its await: the kind of the error
\* decides the sleep.
HandleFailure(rec, reply) ==
    IF IsRateLimit(reply)
    THEN [rec EXCEPT !.pc = "sleepingRateLimit", !.lastError = "rateLimit",
                     !.suggested = reply.suggestion,
                     !.sleepFor = WaitTime(reply, rec.retryDelay)]
    ELSE [rec EXCEPT !.pc = "sleepingBackoff", !.lastError = "other",
                     !.sleepFor = rec.retryDelay, !.otherFails = @ + 1]

\* The attempt failed on a text the model returned, or on an error of the call.
NoteFailure(rec, reply) ==
    [rec EXCEPT !.allMalformed = @ /\ reply.kind = "text"]

\* OwnError with the message of a rate limit.
OwnErrorRateLimit == ModelError(TRUE, <<>>)

\* An error thrown by the function's own code, with its fixed message.
OwnError == ModelError(FALSE, <<>>)

\* generateFallbackVisualizations(data, limitedCategoricalFields, limitedNumericFields)
BatchFallback(rec) ==
    ListResult(GenerateFallbackVisualizations(
                   DataOf(rec),
                   Slice(CategoricalFields(DataOf(rec).rows[1]), LimitedFields),
                   Slice(NumericFields(DataOf(rec).rows[1]), LimitedFields)))

\* BatchFallback of every input that passes the guards of the function.
BatchFallbacks ==
    [in \in AllInputs |->
        LET data == DataSample[in[2]]
        IN  IF IsArray(data) /\ Len(data.rows) > 0 /\ ~FirstRowNull(data)
            THEN BatchFallback([q |-> in[1], d |-> in[2]])
            ELSE ListResult(<<>>)]
    @@ <<>>

\* What the attempt makes of the model's text: [ok, via, result, cand].
\* generateVisualization falls back on the regular expressions when the span
\* does not parse or the parsed configuration is rejected.
Attempted(f, reply) ==
    LET failed == [ok |-> FALSE, via |-> "none", result |-> NoResult, cand |-> <<>>]
        extracted == ExtractVisualizationFromText(reply.found)
    IN  CASE f = "generateVisualization" ->
                IF ~reply.hasSpan THEN failed
                ELSE IF reply.parses /\ ValidConfiguration(reply.cands[1])
                THEN [ok |-> TRUE, via |-> "model", cand |-> reply.cands,
                      result |-> ConfigResult(NormalizeLengths(ConfigOf(reply.cands[1])))]
                ELSE IF extracted.ok
                THEN [ok |-> TRUE, via |-> "regex", cand |-> <<>>,
                      result |-> ConfigResult(extracted.config)]
                ELSE failed
          [] f = "generateAutoVisualizations" ->
                IF ~reply.hasSpan \/ ~reply.parses
                   \/ \E i \in 1..Len(reply.cands) : reply.cands[i].isNull
                THEN failed
                ELSE [ok |-> TRUE, via |-> "model", cand |-> reply.cands,
                      result |-> ListResult(ValidVisualizations(reply.cands))]
          [] f = "generateVisualizationLegacy" ->
                IF reply.hasSpan /\ reply.parses /\ ValidLegacyConfiguration(reply.cands[1])
                THEN [ok |-> TRUE, via |-> "model", cand |-> reply.cands,
                      result |-> ConfigResult(ConfigOf(reply.cands[1]))]
                ELSE failed
          [] OTHER ->
                [ok |-> TRUE, via |-> "model", cand |-> <<>>,
                 result |-> TextResult(Trim(reply.text))]

\* EmptySurvivorSet that is never seen.
EmptySurvivorSetIgnored(f, done) == FALSE

\* if (validVisualizations.length === 0)
EmptySurvivorSet(f, done) ==
    f = "generateAutoVisualizations" /\ done.result.list = <<>>

\* What the awaited call came back with.
AnswerKind(f, reply) ==
    IF reply.kind = "error" THEN "error"
    ELSE IF f \in {"generateResponse", "analyzeData"} THEN "text"
    ELSE IF ~reply.hasSpan THEN "noSpan"
    ELSE IF ~reply.parses THEN "noParse"
    ELSE "parsed"

\* The awaited model call ends, with a text or with an error.
ModelReplies(c, replies) ==
    /\ req[c].pc = "calling"
    /\ \E reply \in replies :
         LET rec  == [req[c] EXCEPT !.answer = AnswerKind(fn, reply),
                                   !.cand = IF AnswerKind(fn, reply) = "parsed"
                                            THEN reply.cands ELSE <<>>]
             done == Attempted(fn, reply)
         IN  IF reply.kind = "text" /\ done.ok
             THEN IF EmptySurvivorSet(fn, done)
                  THEN \* no candidate survived: the fallback, no cache write
                       /\ req' = [req EXCEPT ![c] =
                                    [Finish(rec, "fallback", BatchFallbacks[<<rec.q, rec.d>>])
                                        EXCEPT !.cand = done.cand]]
                       /\ cache' = cache
                  ELSE /\ req' = [req EXCEPT ![c] =
                                    [Finish(rec, done.via, done.result)
                                        EXCEPT !.cand = done.cand]]
                       /\ cache' = IF HasCache(fn)
                                   THEN CachePut(cache, KeyOf(rec), done.result, now)
                                   ELSE cache
             ELSE IF HasRetryLoop(fn)
             THEN /\ req' = [req EXCEPT ![c] =
                                HandleFailure(NoteFailure(rec, reply),
                                              IF reply.kind = "error" THEN reply
                                              ELSE OwnError)]
                  /\ cache' = cache
             ELSE /\ \E rnd \in RandomSeqs(DrawsFor(fn, rec)) :
                        req' = [req EXCEPT ![c] =
                                   OuterCatch(fn, NoteFailure(rec, reply), rnd)]
                  /\ cache' = cache
    /\ UNCHANGED <<fn, now>>

\* After the last attempt: generateVisualization and generateResponse throw
\* into their outer catch, generateAutoVisualizations returns its fallback.
Exhausted(f, rec, rnd) ==
    IF f = "generateAutoVisualizations"
    THEN Finish(rec, "fallback", BatchFallbacks[<<rec.q, rec.d>>])
    ELSE OuterCatch(f, rec, rnd)

\* NextRetryDelay that doubles after every sleep.
NextRetryDelayAlways(rec) == rec.retryDelay * 2

\* NextRetryDelay growing by a fixed step.
NextRetryDelayLinear(rec) ==
    IF rec.pc = "sleepingBackoff" THEN rec.retryDelay + 1000 ELSE rec.retryDelay

\* retryDelay *= 2, after the sleep of a failure that was no rate limit
NextRetryDelay(rec) ==
    IF rec.pc = "sleepingBackoff" THEN rec.retryDelay * 2 ELSE rec.retryDelay

\* LoopContinues with the bound off by one.
LoopContinuesOnceMore(attempt) == attempt <= 3

\* for (let attempt = 0; attempt < maxRetries; attempt++)
LoopContinues(attempt) == attempt < MaxRetries

\* Wake that stores what the exhausted loop hands to the caller.
WakeStoring(c) ==
    /\ req[c].pc \in {"sleepingBackoff", "sleepingRateLimit"}
    /\ LET rec  == req[c]
           next == [rec EXCEPT !.retryDelay = rec.retryDelay, !.attempt = @ + 1,
                               !.sleepFor = 0, !.suggested = <<>>,
                               !.answer = "none", !.cand = <<>>]
       IN  IF next.attempt < MaxRetries
           THEN /\ req' = [req EXCEPT ![c] = [next EXCEPT !.pc = "calling",
                                                          !.calls = @ + 1]]
                /\ cache' = cache
           ELSE \E rnd \in RandomSeqs(DrawsFor(fn, rec)) :
                   /\ req' = [req EXCEPT ![c] = Exhausted(fn, next, rnd)]
                   /\ cache' = [k \in DOMAIN cache \cup {KeyOf(rec)} |->
                                  IF k = KeyOf(rec)
                                  THEN [value |-> req'[c].result, timestamp |-> now]
                                  ELSE cache[k]]
    /\ UNCHANGED <<fn, now>>

\* Wake that also fires for a call that has returned.
WakeReturned(c) ==
    /\ req[c].pc \in {"sleepingBackoff", "sleepingRateLimit", "returned"}
    /\ req' = [req EXCEPT ![c] = [@ EXCEPT !.pc = "calling", !.calls = @ + 1,
                                            !.attempt = @ + 1]]
    /\ UNCHANGED <<fn, now, cache>>


\* Wake that goes back to the model without counting the attempt.
WakeSameAttempt(c) ==
    /\ req[c].pc \in {"sleepingBackoff", "sleepingRateLimit"}
    /\ req' = [req EXCEPT ![c] = [@ EXCEPT !.pc = "calling", !.sleepFor = 0,
                                            !.suggested = <<>>,
                                            !.answer = "none", !.cand = <<>>]]
    /\ UNCHANGED <<fn, now, cache>>

\* The timer of the sleep fires: the next turn of the loop, or its end.
Wake(c) ==
    /\ req[c].pc \in {"sleepingBackoff", "sleepingRateLimit"}
    /\ LET rec  == req[c]
           next == [rec EXCEPT !.retryDelay = NextRetryDelay(rec),
                               !.attempt = @ + 1, !.sleepFor = 0,
                               !.suggested = <<>>, !.answer = "none",
                               !.cand = <<>>]
       IN  IF LoopContinues(next.attempt)
           THEN req' = [req EXCEPT ![c] = [next EXCEPT !.pc = "calling", !.calls = @ + 1]]
           ELSE \E rnd \in RandomSeqs(DrawsFor(fn, rec)) :
                   req' = [req EXCEPT ![c] = Exhausted(fn, next, rnd)]
    /\ UNCHANGED <<fn, now, cache>>

\* Time passes.
Tick ==
    /\ now + TickLength(fn) <= MaxTicks * TickLength(fn)
    /\ now' = now + TickLength(fn)
    /\ UNCHANGED <<fn, cache, req>>

\* Callers side by side.
Next ==
    \/ \E c \in Callers : Call(c, Inputs(fn))
    \/ \E c \in Callers : ModelReplies(c, Replies(fn))
    \/ \E c \in Callers : Wake(c)
    \/ Tick

Spec == Init /\ [][Next]_vars

\* One caller alone, with every input and every answer.
NextSingle ==
    \/ Call("c1", SingleInputs(fn))
    \/ ModelReplies("c1", SingleReplies(fn))
    \/ Wake("c1")

SpecSingle == Init /\ [][NextSingle]_vars

\* Two callers whose data share the start of their serialization.
NextPrefix ==
    \/ \E c \in Callers : Call(c, PrefixInputs(fn))
    \/ \E c \in Callers : ModelReplies(c, Replies(fn))
    \/ \E c \in Callers : Wake(c)
    \/ Tick

SpecPrefix == Init /\ [][NextPrefix]_vars

\* ------------------------------------------------------------------------
\* The chat interface: handleSubmit and the state of the component
\* ------------------------------------------------------------------------

\* The submissions of one behaviour, and the seconds a rate limit may ask for.
MaxSubmits == 3
WaitTimes  == {1, 2}

\* What the user may have typed: nothing, a question, or a request that
\* contains "chart".
ChatInputs == {"", "question", "chart"}

\* The component after mounting; the dashboard may hold a visualization.
InitChat ==
    /\ fn = "handleSubmit"
    /\ now = 0
    /\ cache = <<>>
    /\ \E n \in {0, 1} :
          req = [input |-> "", isLoading |-> FALSE, isRateLimited |-> FALSE,
                 rateLimitTimer |-> 0, visualizationAttempts |-> 0,
                 visualizations |-> n, ignored |-> 0,
                 run |-> [i \in 1..MaxSubmits |-> "unused"]]

\* The runs of handleSubmit that await generateVisualization or
\* generateResponse.
RunsInFlight(ui) ==
    {i \in 1..MaxSubmits :
        ui.run[i] \in {"awaitVisualization", "awaitFallbackText", "awaitResponse"}}

\* IgnoresSubmit that does not look at isLoading.
IgnoresSubmitWhileLimited(ui) == ui.input = "" \/ ui.isRateLimited

\* if (!input.trim() || isLoading || isRateLimited) return
IgnoresSubmit(ui) == ui.input = "" \/ ui.isLoading \/ ui.isRateLimited

\* onChange of the input field, and the suggested questions.
SetInput ==
    /\ \E text \in ChatInputs \ {req.input} : req' = [req EXCEPT !.input = text]
    /\ UNCHANGED <<fn, now, cache>>

\* The form is submitted while handleSubmit returns at once.
SubmitIgnored ==
    /\ IgnoresSubmit(req)
    /\ req.ignored < MaxSubmits
    /\ req' = [req EXCEPT !.ignored = @ + 1]
    /\ UNCHANGED <<fn, now, cache>>

\* The finally block of handleSubmit, at the end of run i.
EndRun(ui, i, how) == [ui EXCEPT !.run[i] = how, !.isLoading = FALSE]

\* The form is submitted and handleSubmit runs up to its first await, or,
\* with an existing visualization after two attempts, to its end.
SubmitAccepted ==
    /\ ~IgnoresSubmit(req)
    /\ \E i \in 1..MaxSubmits :
          /\ req.run[i] = "unused" /\ \A j \in 1..(i - 1) : req.run[j] # "unused"
          /\ LET started == [req EXCEPT !.input = "", !.isLoading = TRUE]
             IN  req' =
                   IF req.input = "chart"
                   THEN LET counted == [started EXCEPT !.visualizationAttempts = @ + 1]
                        IN  IF req.visualizationAttempts >= 2 /\ req.visualizations > 0
                            THEN EndRun(counted, i, "existingVisualization")
                            ELSE [counted EXCEPT !.run[i] = "awaitVisualization"]
                   ELSE [started EXCEPT !.run[i] = "awaitResponse"]
    /\ UNCHANGED <<fn, now, cache>>

\* generateVisualization returns its configuration.
VisualizationReturns ==
    /\ \E i \in 1..MaxSubmits :
          /\ req.run[i] = "awaitVisualization"
          /\ req' = EndRun([req EXCEPT !.visualizations = @ + 1,
                                        !.visualizationAttempts = 0],
                           i, "visualizationCreated")
    /\ UNCHANGED <<fn, now, cache>>

\* generateVisualization throws: the text answer is asked for instead.
VisualizationFails ==
    /\ \E i \in 1..MaxSubmits :
          /\ req.run[i] = "awaitVisualization"
          /\ req' = [req EXCEPT !.run[i] = "awaitFallbackText"]
    /\ UNCHANGED <<fn, now, cache>>

\* generateResponse returns its text, to the question or in place of the
\* visualization; in the latter case its failure ends the run as well.
ResponseReturns ==
    /\ \E i \in 1..MaxSubmits :
          /\ req.run[i] \in {"awaitResponse", "awaitFallbackText"}
          /\ req' = EndRun(req, i, "textAnswer")
    /\ UNCHANGED <<fn, now, cache>>

\* generateResponse throws: an apology, or the countdown of a rate limit
\* when the error of the question's own call names one.
ResponseFails ==
    /\ \E i \in 1..MaxSubmits :
          \/ /\ req.run[i] \in {"awaitResponse", "awaitFallbackText"}
             /\ req' = EndRun(req, i, "error")
          \/ /\ req.run[i] = "awaitResponse"
             /\ \E waitTime \in WaitTimes :
                   req' = EndRun([req EXCEPT !.isRateLimited = TRUE,
                                             !.rateLimitTimer = waitTime],
                                i, "rateLimited")
    /\ UNCHANGED <<fn, now, cache>>

\* The interval of the countdown fires.
CountdownTick ==
    /\ req.isRateLimited
    /\ req' = [req EXCEPT !.rateLimitTimer = @ - 1,
                           !.isRateLimited = (req.rateLimitTimer - 1 > 0)]
    /\ UNCHANGED <<fn, now, cache>>

NextChat ==
    \/ SetInput
    \/ SubmitIgnored
    \/ SubmitAccepted
    \/ VisualizationReturns
    \/ VisualizationFails
    \/ ResponseReturns
    \/ ResponseFails
    \/ CountdownTick

SpecChat == InitChat /\ [][NextChat]_vars

\* ------------------------------------------------------------------------
\* The WhatsApp webhook: userSessions, PUT and POST
\* ------------------------------------------------------------------------

\* The requests of one behaviour.
MaxRequests == 4

\* The values of From and phoneNumber: two numbers, a name that every
\* object inherits from Object.prototype, and the missing field.
Phones        == {"+1", "+2"}
InheritedKeys == {"toString"}
SessionKeys   == Phones \cup InheritedKeys
Uploads       == {"upload1", "upload2"}
Bodies        == {"", "help", "chart of cases", "how many cases"}

\* const userSessions: Record<string, any> = {}
InitWebhook ==
    /\ fn = "webhook"
    /\ now = 0
    /\ cache = <<>>
    /\ req = [served |-> 0, last |-> [op |-> "none"],
              latestPut |-> [k \in SessionKeys |-> "none"]]

\* userSessions[from] without the properties every object inherits.
OwnSessionOrNull(sessions, from) ==
    IF from \in DOMAIN sessions THEN sessions[from] ELSE "null"

\* userSessions[from] || null: an own property, else an inherited one.
SessionOrNull(sessions, from) ==
    IF from \in DOMAIN sessions THEN sessions[from]
    ELSE IF from \in InheritedKeys THEN "Object.prototype." \o from
    ELSE "null"

\* The replies of processWhatsAppMessage; generateVisualization and
\* generateText may throw, and the catch answers for them.
WhatsAppReplies(body, sessionData) ==
    IF sessionData # "null"
    THEN {IF body = "chart of cases" THEN "visualization" ELSE "answer", "error"}
    ELSE IF body = "help" THEN {"help"} ELSE {"welcome"}

\* export async function PUT
PUT ==
    /\ req.served < MaxRequests
    /\ \E phoneNumber \in SessionKeys \cup {""}, data \in Uploads \cup {"null"} :
          IF phoneNumber = "" \/ data = "null"
          THEN /\ req' = [req EXCEPT !.served = @ + 1,
                                     !.last = [op |-> "PUT", status |-> 400]]
               /\ UNCHANGED cache
          ELSE /\ cache' = [k \in DOMAIN cache \cup {phoneNumber} |->
                               IF k = phoneNumber THEN data ELSE cache[k]]
               /\ req' = [req EXCEPT !.served = @ + 1,
                                     !.latestPut[phoneNumber] = data,
                                     !.last = [op |-> "PUT", status |-> 200,
                                               phoneNumber |-> phoneNumber]]
    /\ UNCHANGED <<fn, now>>

\* export async function POST
POST ==
    /\ req.served < MaxRequests
    /\ \E from \in SessionKeys \cup {""}, body \in Bodies :
          IF body = "" \/ from = ""
          THEN req' = [req EXCEPT !.served = @ + 1,
                                  !.last = [op |-> "POST", status |-> 400]]
          ELSE LET sessionData == SessionOrNull(cache, from)
               IN  \E reply \in WhatsAppReplies(body, sessionData) :
                     req' = [req EXCEPT !.served = @ + 1,
                                        !.last = [op |-> "POST", status |-> 200,
                                                  from |-> from,
                                                  sessionData |-> sessionData,
                                                  reply |-> reply]]
    /\ UNCHANGED <<fn, now, cache>>

NextWebhook == PUT \/ POST

SpecWebhook == InitWebhook /\ [][NextWebhook]_vars

\* ------------------------------------------------------------------------
\* Properties
\* ------------------------------------------------------------------------

Returned(c) == req[c].pc = "returned"

\* The configurations a completed call handed to its caller.
ConfigsOf(result) ==
    CASE result.kind = "config" -> <<result.config>>
      [] result.kind = "list" -> result.list
      [] OTHER -> <<>>

ChartFunctions ==
    {"generateVisualization", "generateAutoVisualizations", "generateVisualizationLegacy"}

\* C1: every configuration returned by generateVisualization or
\* generateAutoVisualizations, on any path, has as many labels as values, and
\* at least one.
C1_LabelsMatchValues ==
    \A c \in Callers :
        Returned(c) /\ fn \in ChartFunctions =>
            \A i \in 1..Len(ConfigsOf(req[c].result)) :
                LET config == ConfigsOf(req[c].result)[i]
                IN  /\ config.labels.k = "array" /\ config.values.k = "array"
                    /\ Len(config.labels.items) = Len(config.values.items)
                    /\ Len(config.labels.items) >= 1

\* `config` is `cand` with both arrays cut to the shorter length: the first
\* elements of each, in their order, and nothing else.
Truncated(cand, config) ==
    LET k == Min(Len(cand.labels.items), Len(cand.values.items))
    IN  /\ Len(config.labels.items) = k /\ Len(config.values.items) = k
        /\ \A i \in 1..k : /\ config.labels.items[i] = cand.labels.items[i]
                           /\ config.values.items[i] = cand.values.items[i]

\* C2: the truncation law.  A configuration that generateVisualization or
\* generateAutoVisualizations returns from a parsed candidate with m labels
\* and n values has the first min(m, n) labels and the first min(m, n) values
\* of the candidate, in order, and no other element.
C2_TruncationLaw ==
    \A c \in Callers :
        Returned(c) /\ req[c].via = "model" =>
            /\ fn = "generateVisualization" =>
                  Truncated(req[c].cand[1], req[c].result.config)
            /\ fn = "generateAutoVisualizations" =>
                  LET kept == SelectSeq(req[c].cand, ValidBatchEntry)
                  IN  /\ Len(req[c].result.list) = Min(Len(kept), MaxBatchResults)
                      /\ \A i \in 1..Len(req[c].result.list) :
                            Truncated(kept[i], req[c].result.list[i])

\* Labels [x, y, z] with values [1, 2] came back as [x, y] and [1, 2], from
\* the single chart and from the batch.
C2_Witness ==
    /\ fn = "generateVisualization"
    /\ Returned("c1") /\ req["c1"].via = "model"
    /\ req["c1"].cand = <<ExampleCand>>
    /\ req["c1"].result.config.labels.items = << <<"x">>, <<"y">> >>
    /\ req["c1"].result.config.values.items = <<1, 2>>

\* C3: backoff.  While every failure of the call so far was no rate limit,
\* the sleep before retry N lasts 1000 * 2^(N-1) ms (attempt = N - 1).
C3_BackoffDoubles ==
    \A c \in Callers :
        req[c].pc = "sleepingBackoff" /\ req[c].otherFails = req[c].attempt + 1 =>
            req[c].sleepFor = InitialRetryDelay * 2 ^ req[c].attempt

\* The third failure in a row that is no rate limit: 4000 ms.
C3_Witness ==
    \E c \in Callers :
        /\ req[c].pc = "sleepingBackoff" /\ req[c].otherFails = 3
        /\ req[c].attempt = 2 /\ req[c].sleepFor = 4000

\* All attempts of the call failed.
AllAttemptsFailed(c) ==
    Returned(c) /\ req[c].calls = MaxRetries /\ req[c].via \notin {"model", "regex"}

\* C4: a request makes at most 3 model calls, and when all 3 fail the caller
\* of generateVisualization or generateAutoVisualizations gets the result of
\* the fallback generator, not an error.
C4_AtMostThreeCalls ==
    \A c \in Callers :
        /\ req[c].calls <= 3
        /\ req[c].pc # "raised"
        /\ AllAttemptsFailed(c) /\ fn = "generateVisualization" =>
              \E rnd \in RandomSeqs(DrawsFor(fn, req[c])) :
                 req[c].result =
                    ConfigResult(GenerateFallbackVisualization(DataOf(req[c]),
                                                               RequestOf(req[c]), rnd))
        /\ AllAttemptsFailed(c) /\ fn = "generateAutoVisualizations" =>
              req[c].result =
                 ListResult(GenerateFallbackVisualizations(
                    DataOf(req[c]),
                    Slice(CategoricalFields(DataOf(req[c]).rows[1]), 3),
                    Slice(NumericFields(DataOf(req[c]).rows[1]), 3)))

C4_Witness ==
    /\ fn = "generateAutoVisualizations"
    /\ AllAttemptsFailed("c1") /\ req["c1"].d = "example"
    /\ Len(req["c1"].result.list) = 1
    /\ req["c1"].result.list[1].values.items = <<10, 20, 5>>

\* The result type each function declares.
DeclaredKind(f) ==
    CASE f = "generateAutoVisualizations" -> "list"
      [] f \in {"generateResponse", "analyzeData"} -> "text"
      [] OTHER -> "config"

\* C5: no call of generateVisualization, generateAutoVisualizations,
\* analyzeData or generateResponse raises to its caller; whatever the data,
\* the request and the model's failures, a completed call returned a value of
\* the function's result type.
C5_NeverRaises ==
    \A c \in Callers :
        /\ req[c].pc # "raised"
        /\ Returned(c) => req[c].result.kind = DeclaredKind(fn)

\* generateResponse after three failed attempts: the apology.
C5_Witness ==
    /\ fn = "generateResponse"
    /\ Returned("c1") /\ req["c1"].via = "catch" /\ req["c1"].calls = 3
    /\ req["c1"].result = TextResult(ApologyText)

\* The step in which caller c calls the function.
CallStep(c) == req[c].pc = "idle" /\ req'[c].pc # "idle"

\* The cache holds an entry for the key of the call `rec`, written less than
\* (strictly) or at most (not strictly) a TTL ago.
LiveEntry(rec, strictly) ==
    /\ DataOf(rec).t # "undefined"
    /\ KeyOf(rec) \in DOMAIN cache
    /\ IF strictly THEN now - cache[KeyOf(rec)].timestamp < CacheTtl(fn)
       ELSE now - cache[KeyOf(rec)].timestamp <= CacheTtl(fn)

\* A call's lookup hits exactly when LiveEntry(_, strictly) holds at the call;
\* a hit returns the stored value without a model call, a miss goes on.
LookupLaw(strictly) ==
    \A c \in Callers :
        CallStep(c) /\ HasCache(fn) =>
            IF LiveEntry(req'[c], strictly)
            THEN /\ req'[c].pc = "returned" /\ req'[c].via = "cache"
                 /\ req'[c].calls = 0
                 /\ req'[c].result = cache[KeyOf(req'[c])].value
            ELSE req'[c].via # "cache"

SameInput(a, b) == a.q = b.q /\ a.d = b.d

\* C7 as stated: when the pair that an earlier request called the model for
\* is requested again within a TTL of that request's return, the second
\* request is answered without a call and exactly one model call was issued
\* over the two.
C7_ExactlyOneCall ==
    [][\A c, o \in Callers :
          /\ CallStep(c) /\ HasCache(fn)
          /\ Returned(o) /\ req[o].calls >= 1 /\ SameInput(req[o], req'[c])
          /\ now - req[o].doneAt < CacheTtl(fn)
          => /\ req'[c].pc = "returned"
             /\ req[o].calls + req'[c].calls = 1]_vars

\* C7 as amended: when an earlier request of the same pair returned a result
\* made from the model's answer (which it cached), and the second request
\* starts less than a TTL after that return, the second request is answered
\* from the cache without any model call; the calls over the two are those of
\* the first, between 1 and 3.
C7_SecondFromCache ==
    [][\A c, o \in Callers :
          /\ CallStep(c) /\ HasCache(fn)
          /\ Returned(o) /\ req[o].via \in {"model", "regex"}
          /\ SameInput(req[o], req'[c])
          /\ now - req[o].doneAt < CacheTtl(fn)
          => /\ req'[c].pc = "returned" /\ req'[c].via = "cache"
             /\ req'[c].calls = 0
             /\ req[o].calls + req'[c].calls \in 1..MaxRetries]_vars

\* The first request needed two model calls; the second, half a TTL later,
\* none.
C7_Witness ==
    \E c, o \in Callers :
        /\ fn = "generateResponse" /\ SameInput(req[o], req[c])
        /\ Returned(o) /\ req[o].via = "model" /\ req[o].calls = 2
        /\ Returned(c) /\ req[c].via = "cache" /\ req[c].calls = 0
        /\ req[c].doneAt = req[o].doneAt + TickLength(fn)

\* generateVisualization returned after three attempts that each ended with a
\* text of the model from which no configuration could be made.
MalformedThrice(c) ==
    /\ fn = "generateVisualization"
    /\ Returned(c) /\ req[c].via = "catch"
    /\ req[c].calls = 3 /\ req[c].allMalformed

\* The values of `field` over the records, in order.
ColumnOf(data, field) == [i \in 1..Len(data.rows) |-> Get(data.rows[i], field)]

\* The positions at which a value of `column` occurs for the first time,
\* among the values picked by Keep.
FirstOccurrences(column, Keep(_)) ==
    {i \in 1..Len(column) :
        Keep(column[i]) /\ \A j \in 1..(i - 1) : column[j] # column[i]}

\* `labels` are the values (as strings) at the first `cap` positions of
\* `firsts`, in the order of the positions.
LabelsAre(labels, column, firsts, cap) ==
    /\ Len(labels) = Min(cap, Cardinality(firsts))
    /\ \A i \in firsts :
          LET rank == Cardinality({j \in firsts : j <= i})
          IN  rank <= cap => labels[rank] = StringOf(column[i])

\* The sum of Number(record[numField]) || 0 over the records whose value of
\* catField reads `label`.
LabelSum(data, catField, numField, label) ==
    LET part(i) == IF StringOf(Get(data.rows[i], catField)) = label
                   THEN NumberOrZero(Get(data.rows[i], numField)) ELSE 0
        sumTo[i \in 0..Len(data.rows)] == IF i = 0 THEN 0 ELSE sumTo[i - 1] + part(i)
    IN  sumTo[Len(data.rows)]

Mentions(rec, word) == Includes(ToLowerCase(RequestOf(rec)), word)

AnyValue(v) == TRUE

ExampleChart(c) ==
    /\ req[c].result.config.type = "bar"
    /\ req[c].result.config.labels.items = << <<"A">>, <<"B">>, <<"C">> >>
    /\ req[c].result.config.values.items = <<10, 20, 5>>

NothingToChart(data) ==
    \/ ~IsArray(data)
    \/ Len(data.rows) = 0
    \/ /\ ~data.rows[1].isNull
       /\ \/ NumericFields(data.rows[1]) = <<>>
          \/ CategoricalFields(data.rows[1]) = <<>>

\* generateAutoVisualizations was called with such data by c: the call is
\* over, it issued no model call and, unless `exceptHits` and it was answered
\* from the cache, it returned the empty list.
NothingCharted(c, exceptHits) ==
    fn = "generateAutoVisualizations" /\ req[c].pc # "idle"
    /\ NothingToChart(DataOf(req[c]))
    => /\ Returned(c)
       /\ req[c].calls = 0
       /\ (exceptHits /\ req[c].via = "cache") \/ req[c].result = ListResult(<<>>)

\* C9 as stated: generateAutoVisualizations returns the empty list and issues
\* no model call whenever the data is empty or no array, or has no numeric or
\* no categorical field, in every state of the cache.
C9_EmptyWhateverTheCache == \A c \in Callers : NothingCharted(c, FALSE)

\* C9 as amended: in these cases generateAutoVisualizations issues no model
\* call, and returns the empty list unless the cache holds an entry less than
\* a TTL old under the first 200 characters of the serialized data (written
\* for another data sample with the same prefix): then it returns the list of
\* that entry.
C9_EmptyUnlessCached ==
    \A c \in Callers :
        /\ NothingCharted(c, TRUE)
        /\ Returned(c) /\ req[c].via = "cache" =>
              /\ KeyOf(req[c]) \in DOMAIN cache
              /\ req[c].doneAt - cache[KeyOf(req[c])].timestamp < CacheTtl(fn)

\* Data without a numeric field got the visualizations cached for other data
\* of the same prefix.
C9_Witness ==
    \E c, o \in Callers :
        /\ fn = "generateAutoVisualizations"
        /\ Returned(c) /\ req[c].d = "longOnly" /\ req[c].via = "cache"
        /\ req[c].calls = 0 /\ req[c].result.list # <<>>
        /\ Returned(o) /\ req[o].d = "long" /\ req[o].via = "model"

\* generateFallbackVisualizations returned its list to c.
BatchFallbackReturned(c) ==
    /\ fn = "generateAutoVisualizations"
    /\ Returned(c) /\ req[c].via = "fallback"

LimitedCategoricalFields(c) == Slice(CategoricalFields(DataOf(req[c]).rows[1]), 3)
LimitedNumericFields(c)     == Slice(NumericFields(DataOf(req[c]).rows[1]), 3)

\* C10 as stated: the batch fallback never raises and returns a list, which
\* has at least one visualization whenever at least one categorical and one
\* numeric field are given.
C10_NonEmptyForAnyPair ==
    \A c \in Callers :
        /\ req[c].pc # "raised"
        /\ BatchFallbackReturned(c) =>
              /\ req[c].result.kind = "list"
              /\ LimitedCategoricalFields(c) # <<>> /\ LimitedNumericFields(c) # <<>>
                    => Len(req[c].result.list) >= 1

\* C10 as amended: the batch fallback never raises and returns a list, which
\* has at least one visualization exactly when no record is null and, for one
\* of the first min(5, categorical x numeric) field combinations, some record
\* has a truthy value of the categorical field; every visualization in it has
\* at least one label and as many values.
C10_NonEmptyForTruthyCategory ==
    \A c \in Callers :
        /\ req[c].pc # "raised"
        /\ BatchFallbackReturned(c) =>
              LET data  == DataOf(req[c])
                  cats  == LimitedCategoricalFields(c)
                  nums  == LimitedNumericFields(c)
                  tried == Min(5, Len(cats) * Len(nums))
                  list  == req[c].result.list
              IN  /\ req[c].result.kind = "list"
                  /\ Len(list) >= 1 <=>
                        /\ ~HasNullRow(data)
                        /\ \E i \in 0..(tried - 1), r \in 1..Len(data.rows) :
                              Truthy(Get(data.rows[r], cats[(i % Len(cats)) + 1]))
                  /\ \A k \in 1..Len(list) :
                        /\ Len(list[k].labels.items) >= 1
                        /\ Len(list[k].values.items) = Len(list[k].labels.items)

\* A record with an empty region and a number: a pair of fields, and the
\* empty list.
C10_Witness ==
    /\ BatchFallbackReturned("c1")
    /\ req["c1"].d = "blank"
    /\ LimitedCategoricalFields("c1") # <<>> /\ LimitedNumericFields("c1") # <<>>
    /\ req["c1"].result.list = <<>>

\* The fields validation is to require of a configuration, as far as a
\* candidate records them: a chart kind, a title, and arrays of labels and
\* of values.
HasRequiredFields(config) ==
    /\ config.type \in ChartKinds
    /\ config.hasTitle /\ config.hasData
    /\ config.labels.k = "array" /\ config.values.k = "array"

\* C11: every candidate that passes validation has a type in {bar, line, pie,
\* donut}, a title, and sequences of labels and of values; a candidate that
\* lacks one of them is never returned (as a validated result) nor cached.
C11_RequiredFields ==
    /\ \A c \in Callers :
          Returned(c) /\ req[c].via = "model"
          /\ fn \in {"generateVisualization", "generateAutoVisualizations"} =>
              \A i \in 1..Len(ConfigsOf(req[c].result)) :
                  HasRequiredFields(ConfigsOf(req[c].result)[i])
    /\ fn \in {"generateVisualization", "generateAutoVisualizations"} =>
          \A key \in DOMAIN cache :
              \A i \in 1..Len(ConfigsOf(cache[key].value)) :
                  HasRequiredFields(ConfigsOf(cache[key].value)[i])

\* ------------------------------------------------------------------------
\* cleanJsonString
\* ------------------------------------------------------------------------

\* A regular expression is a sequence of elements: a character, \s*, \d+,
\* [^"]*, .* up to the end of the line, and the lazy [\s\S]*? before the
\* rest of the expression.
Lit(c)   == [k |-> "lit", c |-> c]
Spaces   == [k |-> "spaces", c |-> ""]
Digits   == [k |-> "digits", c |-> ""]
NoQuotes == [k |-> "noQuotes", c |-> ""]
LineRest == [k |-> "lineRest", c |-> ""]
Lazy     == [k |-> "lazy", c |-> ""]

Lits(chars) == [i \in 1..Len(chars) |-> Lit(chars[i])]

Ellipsis == Lits(<<".", ".", ".">>)

InClass(c, k) ==
    CASE k = "spaces" -> IsSpace(c) \/ c = "\n"
      [] k = "digits" -> IsDigit(c)
      [] k = "noQuotes" -> c # "\""
      [] OTHER -> c # "\n"

\* The first position from i on whose character is not in the class.
RECURSIVE SkipClass(_, _, _)
SkipClass(s, i, k) ==
    IF i <= Len(s) /\ InClass(s[i], k) THEN SkipClass(s, i + 1, k) ELSE i

\* The position after the match of `pat` that starts at position i of s, or
\* 0 when there is none.  The starred classes take all they can; in the
\* expressions of cleanJsonString what follows them never begins with a
\* character of the class, so that no shorter choice matches either.
RECURSIVE MatchFrom(_, _, _)
MatchFrom(s, i, pat) ==
    IF pat = <<>> THEN i
    ELSE LET e == Head(pat)
         IN  CASE e.k = "lit" ->
                    IF i <= Len(s) /\ s[i] = e.c THEN MatchFrom(s, i + 1, Tail(pat))
                    ELSE 0
               [] e.k = "digits" ->
                    IF i <= Len(s) /\ IsDigit(s[i])
                    THEN MatchFrom(s, SkipClass(s, i, "digits"), Tail(pat))
                    ELSE 0
               [] e.k = "lazy" ->
                    LET ends == {j \in i..(Len(s) + 1) : MatchFrom(s, j, Tail(pat)) # 0}
                    IN  IF ends = {} THEN 0
                        ELSE MatchFrom(s, CHOOSE j \in ends : \A o \in ends : j <= o,
                                       Tail(pat))
               [] OTHER -> MatchFrom(s, SkipClass(s, i, e.k), Tail(pat))

\* String.prototype.replace(/pat/g, repl) from position i on: the matches
\* are taken from left to right and do not overlap.
RECURSIVE ReplaceAll(_, _, _, _)
ReplaceAll(s, i, pat, repl) ==
    LET starts == {j \in i..Len(s) : MatchFrom(s, j, pat) > j}
        first  == CHOOSE j \in starts : \A o \in starts : j <= o
    IN  IF starts = {} THEN SubSeq(s, i, Len(s))
        ELSE SubSeq(s, i, first - 1) \o repl
             \o ReplaceAll(s, MatchFrom(s, first, pat), pat, repl)

Placeholder == <<"[", "\"", "p", "l", "a", "c", "e", "h", "o", "l", "d", "e", "r", "\"", "]">>

\* The replacements of cleanJsonString, in its order.
CleanSteps ==
    << [pat  |-> <<Lit("["), Spaces>> \o Ellipsis \o <<Spaces, Lit("]")>>,
        repl |-> <<"[", "]">>],
       [pat  |-> <<Lit("["), Spaces, Lit("\""), NoQuotes, Lit("\""), Spaces, Lit(","),
                   Spaces>> \o Ellipsis \o <<Spaces, Lit("]")>>,
        repl |-> Placeholder],
       [pat  |-> <<Lit("["), Spaces, Digits, Spaces, Lit(","), Spaces>> \o Ellipsis
                 \o <<Spaces, Lit("]")>>,
        repl |-> <<"[", "0", "]">>],
       [pat  |-> <<Lit(","), Spaces>> \o Ellipsis \o <<Spaces, Lit(",")>>,
        repl |-> <<",">>],
       [pat  |-> <<Lit(","), Spaces>> \o Ellipsis \o <<Spaces, Lit("]")>>,
        repl |-> <<"]">>],
       [pat  |-> <<Lit("["), Spaces>> \o Ellipsis \o <<Spaces, Lit(",")>>,
        repl |-> <<"[">>],
       [pat  |-> <<Lit(","), Spaces, Lit("]")>>, repl |-> <<"]">>],
       [pat  |-> <<Lit(","), Spaces, Lit("}")>>, repl |-> <<"}">>],
       [pat  |-> Ellipsis, repl |-> <<>>],
       [pat  |-> <<Lit("/"), Lit("/"), LineRest>>, repl |-> <<>>],
       [pat  |-> <<Lit("/"), Lit("*"), Lazy, Lit("*"), Lit("/")>>, repl |-> <<>>] >>

\* The text after the first n replacements.
RECURSIVE CleanedBy(_, _)
CleanedBy(s, n) ==
    IF n = 0 THEN s
    ELSE ReplaceAll(CleanedBy(s, n - 1), 1, CleanSteps[n].pat, CleanSteps[n].repl)

CleanJsonString(jsonString) == CleanedBy(jsonString, Len(CleanSteps))

\* JsonSpan that ends at the first "}" after the first "{".
JsonSpanToFirstClose(text) ==
    LET opens  == {i \in 1..Len(text) : text[i] = "{"}
        jsonStartIndex == CHOOSE i \in opens : \A j \in opens : i <= j
        closes == {i \in 1..Len(text) : text[i] = "}" /\ i > jsonStartIndex}
        jsonEndIndex   == CHOOSE i \in closes : \A j \in closes : i <= j
    IN  IF opens = {} \/ closes = {} THEN <<>>
        ELSE SubSeq(text, jsonStartIndex, jsonEndIndex)

\* text.substring(text.indexOf("{"), text.lastIndexOf("}") + 1); <<>> stands
\* for the thrown error when there is no such span.
JsonSpan(text) ==
    LET opens  == {i \in 1..Len(text) : text[i] = "{"}
        closes == {i \in 1..Len(text) : text[i] = "}"}
        jsonStartIndex == CHOOSE i \in opens : \A j \in opens : i <= j
        jsonEndIndex   == CHOOSE i \in closes : \A j \in closes : i >= j
    IN  IF opens = {} \/ closes = {} THEN <<>>
        ELSE IF jsonEndIndex <= jsonStartIndex THEN <<>>
        ELSE SubSeq(text, jsonStartIndex, jsonEndIndex)

\* ------------------------------------------------------------------------
\* JSON.parse, for objects, arrays, strings without escapes and numerals
\* ------------------------------------------------------------------------

JStr(chars)   == [t |-> "string", s |-> chars, n |-> 0, items |-> <<>>]
JNum(n)       == [t |-> "number", s |-> <<>>, n |-> n, items |-> <<>>]
JArr(items)   == [t |-> "array", s |-> <<>>, n |-> 0, items |-> items]
JObj(members) == [t |-> "object", s |-> <<>>, n |-> 0, items |-> members]
Member(key, value) == [key |-> key, value |-> value]

Parsed(v, next) == [ok |-> TRUE, v |-> v, next |-> next]
SyntaxError     == [ok |-> FALSE, v |-> JNum(0), next |-> 0]

At(s, i) == IF i <= Len(s) THEN s[i] ELSE ""

\* A string literal that starts at position i.
ParseString(s, i) ==
    LET close == SkipClass(s, i + 1, "noQuotes")
        chars == SubSeq(s, i + 1, close - 1)
    IN  IF At(s, i) # "\"" \/ close > Len(s) THEN SyntaxError
        ELSE IF \E k \in 1..Len(chars) : chars[k] = "\n" THEN SyntaxError
        ELSE Parsed(JStr(chars), close + 1)

RECURSIVE ParseValue(_, _)
RECURSIVE ParseElements(_, _, _)
RECURSIVE ParseMembers(_, _, _)

\* The elements of an array from position i on, after those in acc.
ParseElements(s, i, acc) ==
    LET element == ParseValue(s, i)
        j == SkipClass(s, element.next, "spaces")
    IN  IF ~element.ok THEN SyntaxError
        ELSE IF At(s, j) = "," THEN ParseElements(s, j + 1, Append(acc, element.v))
        ELSE IF At(s, j) = "]" THEN Parsed(JArr(Append(acc, element.v)), j + 1)
        ELSE SyntaxError

\* The members of an object from position i on, after those in acc.
ParseMembers(s, i, acc) ==
    LET key   == ParseString(s, SkipClass(s, i, "spaces"))
        colon == SkipClass(s, key.next, "spaces")
        value == ParseValue(s, colon + 1)
        j     == SkipClass(s, value.next, "spaces")
        all   == Append(acc, Member(key.v.s, value.v))
    IN  IF ~key.ok \/ At(s, colon) # ":" THEN SyntaxError
        ELSE IF ~value.ok THEN SyntaxError
        ELSE IF At(s, j) = "," THEN ParseMembers(s, j + 1, all)
        ELSE IF At(s, j) = "}" THEN Parsed(JObj(all), j + 1)
        ELSE SyntaxError

\* The value that starts at or after position i.
ParseValue(s, i) ==
    LET j == SkipClass(s, i, "spaces")
        k == SkipClass(s, j + 1, "spaces")
    IN  CASE At(s, j) = "\"" -> ParseString(s, j)
          [] IsDigit(At(s, j)) ->
                Parsed(JNum(DigitsToNumber(SubSeq(s, j, SkipClass(s, j, "digits") - 1))),
                       SkipClass(s, j, "digits"))
          [] At(s, j) = "[" ->
                IF At(s, k) = "]" THEN Parsed(JArr(<<>>), k + 1)
                ELSE ParseElements(s, j + 1, <<>>)
          [] At(s, j) = "{" ->
                IF At(s, k) = "}" THEN Parsed(JObj(<<>>), k + 1)
                ELSE ParseMembers(s, j + 1, <<>>)
          [] OTHER -> SyntaxError

\* JSON.parse: [ok |-> FALSE] stands for the SyntaxError it throws.
JsonParse(s) ==
    LET r == ParseValue(s, 1)
    IN  IF r.ok /\ SkipClass(s, r.next, "spaces") = Len(s) + 1
        THEN [ok |-> TRUE, v |-> r.v]
        ELSE [ok |-> FALSE, v |-> JNum(0)]

\* JSON.stringify of such a value.
RECURSIVE JsonText(_)
JsonText(v) ==
    CASE v.t = "string" -> Quote(v.s)
      [] v.t = "number" -> NumberToString(v.n)
      [] v.t = "array" ->
            <<"[">> \o Join([i \in 1..Len(v.items) |-> JsonText(v.items[i])], <<",">>)
            \o <<"]">>
      [] OTHER ->
            <<"{">>
            \o Join([i \in 1..Len(v.items) |->
                        Quote(v.items[i].key) \o <<":">> \o JsonText(v.items[i].value)],
                    <<",">>)
            \o <<"}">>

\* ------------------------------------------------------------------------
\* The repair of JSON texts that have no defect
\* ------------------------------------------------------------------------

\* {"title": <title>, "labels": [<labels>], "values": [<values>]}
ChartValue(title, labels, values) ==
    JObj(<<Member(<<"t", "i", "t", "l", "e">>, JStr(title)),
           Member(<<"l", "a", "b", "e", "l", "s">>,
                  JArr([i \in 1..Len(labels) |-> JStr(labels[i])])),
           Member(<<"v", "a", "l", "u", "e", "s">>,
                  JArr([i \in 1..Len(values) |-> JNum(values[i])]))>>)

\* Values whose strings hold nothing special, an ellipsis, "//", a comment,
\* and a comma before a bracket or a brace.
RepairSample ==
    [plain   |-> ChartValue(<<"T">>, << <<"a">>, <<"b">> >>, <<1, 2>>),
     empty   |-> ChartValue(<<"T">>, <<>>, <<>>),
     dots    |-> ChartValue(<<"w", "a", "i", "t", ".", ".", ".">>, << <<"a">> >>, <<1>>),
     url     |-> ChartValue(<<"h", "t", "t", "p", ":", "/", "/", "x">>, << <<"a">> >>, <<1>>),
     comment |-> ChartValue(<<"a", "/", "*", "b", "*", "/", "c">>, << <<"a">> >>, <<1>>),
     bracket |-> ChartValue(<<"T">>, << <<"a", ",", " ", "]">> >>, <<1>>),
     brace   |-> ChartValue(<<"a", ",", "}">>, << <<"a">> >>, <<1>>)]

\* The model's text: the value as JSON.stringify writes it.
RepairText == [k \in DOMAIN RepairSample |-> JsonText(RepairSample[k])]

InitRepair ==
    /\ fn = "cleanJsonString"
    /\ now = 0
    /\ cache = <<>>
    /\ req = [c \in Callers |-> IdleCall]

\* The span of a text is extracted and repaired (part of an attempt).
CleanOnce(c) ==
    /\ req[c].pc = "idle"
    /\ \E k \in DOMAIN RepairText :
          req' = [req EXCEPT ![c] =
                    [@ EXCEPT !.pc = "returned", !.q = k, !.via = "cleaned",
                              !.result = TextResult(CleanJsonString(JsonSpan(RepairText[k])))]]
    /\ UNCHANGED <<fn, now, cache>>

\* The repaired text is repaired again.
CleanAgain(c) ==
    /\ req[c].pc = "returned" /\ req[c].via = "cleaned"
    /\ req' = [req EXCEPT ![c] =
                 [@ EXCEPT !.via = "cleanedTwice",
                           !.result = TextResult(CleanJsonString(req[c].result.text))]]
    /\ UNCHANGED <<fn, now, cache>>

NextRepair ==
    \/ \E c \in Callers : CleanOnce(c)
    \/ \E c \in Callers : CleanAgain(c)

SpecRepair == InitRepair /\ [][NextRepair]_vars

\* One replacement of cleanJsonString, the n-th, on its own.
ApplyStep(s, n) == ReplaceAll(s, 1, CleanSteps[n].pat, CleanSteps[n].repl)

\* Model texts with the defects the replacements are for: ["a", ...],
\* [1,...,...,5], [1,2,], {"a":[...]} and [1]//x.
RuleTexts ==
    [named    |-> <<"[", "\"", "a", "\"", ",", " ", ".", ".", ".", "]">>,
     middle   |-> <<"[", "1", ",", ".", ".", ".", ",", ".", ".", ".", ",", "5", "]">>,
     trailing |-> <<"[", "1", ",", "2", ",", "]">>,
     whole    |-> <<"{", "\"", "a", "\"", ":", "[", ".", ".", ".", "]", "}">>,
     comment  |-> <<"[", "1", "]", "/", "/", "x">>]

\* A text is taken for repair; none of the replacements has run on it.
StartRepair(c) ==
    /\ req[c].pc = "idle"
    /\ \E k \in DOMAIN RuleTexts :
          req' = [req EXCEPT ![c] =
                    [@ EXCEPT !.pc = "repairing", !.q = k,
                              !.cand = [n \in 1..Len(CleanSteps) |-> FALSE],
                              !.result = TextResult(RuleTexts[k])]]
    /\ UNCHANGED <<fn, now, cache>>

\* One of the replacements that has not run yet runs on the text, in
\* whatever order; after the last one the text is returned.
ApplyRule(c) ==
    /\ req[c].pc = "repairing"
    /\ \E n \in 1..Len(CleanSteps) :
          /\ ~req[c].cand[n]
          /\ LET applied == [req[c].cand EXCEPT ![n] = TRUE]
             IN  req' = [req EXCEPT ![c] =
                    [@ EXCEPT !.cand = applied,
                              !.pc = IF \A m \in 1..Len(CleanSteps) : applied[m]
                                     THEN "returned" ELSE "repairing",
                              !.via = "rules",
                              !.result = TextResult(ApplyStep(req[c].result.text, n))]]
    /\ UNCHANGED <<fn, now, cache>>

NextRules ==
    \/ StartRepair("c1")
    \/ ApplyRule("c1")

SpecRules == InitRepair /\ [][NextRules]_vars

\* The texts the extractor is tried on: every text of at most MaxTextLen
\* characters over a brace, its closing brace and another character.
MaxTextLen == 4
SpanTexts == UNION {[1..n -> {"{", "}", "a"}] : n \in 0..MaxTextLen}

InitSpan ==
    /\ fn = "generateVisualization"
    /\ now = 0
    /\ cache = <<>>
    /\ req = [c \in Callers |-> IdleCall]

\* The span of the model's text is taken, or the extraction error thrown
\* (the start of an attempt).
ExtractSpan(c) ==
    /\ req[c].pc = "idle"
    /\ \E text \in SpanTexts :
          req' = [req EXCEPT ![c] =
                    [@ EXCEPT !.pc = "returned", !.q = text,
                              !.via = IF JsonSpan(text) = <<>> THEN "noSpan" ELSE "span",
                              !.result = TextResult(JsonSpan(text))]]
    /\ UNCHANGED <<fn, now, cache>>

NextSpan == \E c \in Callers : ExtractSpan(c)

SpecSpan == InitSpan /\ [][NextSpan]_vars

\* C12: round trip.  For every JSON text without defects, the span of the
\* text, repaired by cleanJsonString and parsed, is the structure that
\* parsing the text gives, also when its strings contain "...", "//", "/*"
\* or a comma before a bracket.
C12_RoundTrip ==
    \A c \in Callers :
        Returned(c) /\ req[c].via = "cleaned" =>
            /\ JsonParse(RepairText[req[c].q]).ok
            /\ JsonParse(req[c].result.text) = JsonParse(RepairText[req[c].q])

\* C13: idempotence.  For every valid JSON text t,
\* cleanJsonString(cleanJsonString(t)) is t.
C13_RepairTwice ==
    \A c \in Callers :
        Returned(c) /\ req[c].via = "cleanedTwice" =>
            req[c].result.text = RepairText[req[c].q]

\* ---------------------------------------------------------------------
\* Rate limits
\* ---------------------------------------------------------------------

\* The seconds a message suggests, in milliseconds, with or without a point.
SuggestedMs(s) ==
    IF \E i \in 1..Len(s) : s[i] = "." THEN ParseSecondsAsMs(s)
    ELSE DigitsToNumber(s) * 1000

\* The attempt of caller c fails on a rate limit in this step.
RateLimited(c) ==
    req[c].pc = "calling" /\ req'[c].pc = "sleepingRateLimit"

\* The sleep of caller c after a rate limit ends in this step.
RateLimitSleepEnds(c) ==
    req[c].pc = "sleepingRateLimit" /\ req'[c].pc # "sleepingRateLimit"

Wrote(c, key) ==
    /\ HasCache(fn) /\ Returned(c) /\ req[c].via \in {"model", "regex"}
    /\ KeyOf(req[c]) = key

\* The entry caller c wrote.
EntryOf(c) == [value |-> req[c].result, timestamp |-> req[c].doneAt]

\* C15: under every interleaving of the callers each cache entry is the pair
\* of result and time that one completed request wrote as a whole, no
\* request wrote the fingerprint later than that, and a request that
\* completes with a result of the model overwrites the entry of its
\* fingerprint whatever it held and leaves the other entries alone.
C15_EntriesWrittenWhole ==
    /\ [](\A key \in DOMAIN cache :
            \E c \in Callers :
                /\ Wrote(c, key) /\ cache[key] = EntryOf(c)
                /\ \A o \in Callers : Wrote(o, key) => req[o].doneAt <= req[c].doneAt)
    /\ [][\A c \in Callers :
            LET key == KeyOf(req[c])
            IN  (req[c].pc = "calling" /\ Wrote(c, key)') =>
                    /\ DOMAIN cache' = DOMAIN cache \cup {key}
                    /\ cache'[key] = EntryOf(c)'
                    /\ \A k \in DOMAIN cache \ {key} : cache'[k] = cache[k]]_vars

\* Two requests wrote the same fingerprint one tick apart, and the entry is
\* that of the later one.
C15_Witness ==
    \E c, o \in Callers, key \in DOMAIN cache :
        /\ Wrote(c, key) /\ Wrote(o, key)
        /\ req[o].doneAt < req[c].doneAt
        /\ cache[key] = EntryOf(c) /\ cache[key] # EntryOf(o)

\* ---------------------------------------------------------------------
\* Two runs of the fallback
\* ---------------------------------------------------------------------

\* The result of caller c was made by the fallback generator of
\* generateVisualization or of generateAutoVisualizations.
FromFallback(c) ==
    /\ fn \in {"generateVisualization", "generateAutoVisualizations"}
    /\ Returned(c) /\ req[c].via \in {"fallback", "catch"}

\* The fallback of caller c drew Math.random().
DrewRandom(c) == DrawsFor(fn, req[c]) > 0

\* The categories of caller c's data whose sum is 0 (none for the functions
\* whose fallback sums nothing this way).
ZeroSums(c) ==
    LET data    == DataOf(req[c])
        request == RequestOf(req[c])
    IN  IF fn = "generateVisualization" /\ FallbackUsesData(data, request)
        THEN LET sums == FallbackSums(data,
                             SelectField(FallbackCategoricalFields(data.rows[1]), request),
                             SelectField(FallbackNumericFields(data.rows[1]), request))
             IN  {i \in 1..Len(sums) : sums[i] = 0}
        ELSE {}

Passing(cands) == {i \in 1..Len(cands) : ValidBatchEntry(cands[i])}

\* The place of the k-th candidate that passes.
PassingAt(cands, k) ==
    CHOOSE i \in Passing(cands) : Cardinality({j \in Passing(cands) : j <= i}) = k

\* generateAutoVisualizations parsed the model's array for caller c.
BatchParsed(c) ==
    /\ fn = "generateAutoVisualizations" /\ Returned(c)
    /\ req[c].via \in {"model", "fallback"} /\ req[c].cand # <<>>

\* C17: the list generateAutoVisualizations returns from the model holds the
\* first 3 candidates that pass the filter (all of them when fewer pass), in
\* the model's order, and is never empty: when no candidate passes, the
\* caller gets the list of the batch fallback and the cache is not written.
C17_FirstThreeInOrder ==
    \A c \in Callers :
        BatchParsed(c) =>
            LET cands == req[c].cand
                list  == req[c].result.list
                n     == Min(MaxBatchResults, Cardinality(Passing(cands)))
            IN  IF n = 0
                THEN /\ req[c].via = "fallback"
                     /\ req[c].result = BatchFallback(req[c])
                     /\ KeyOf(req[c]) \notin DOMAIN cache
                ELSE /\ req[c].via = "model"
                     /\ Len(list) = n
                     /\ \A k \in 1..n :
                           LET from == cands[PassingAt(cands, k)]
                               m    == Min(Len(from.labels.items), Len(from.values.items))
                           IN  /\ list[k].type = from.type
                               /\ list[k].labels.items = Slice(from.labels.items, m)
                               /\ list[k].values.items = Slice(from.values.items, m)

\* Of six candidates four pass, the second, third and fifth are returned;
\* the sixth is cut.
C17_Witness ==
    \E c \in Callers :
        /\ BatchParsed(c) /\ req[c].via = "model"
        /\ Len(req[c].cand) = 6 /\ Passing(req[c].cand) = {2, 3, 5, 6}
        /\ Len(req[c].result.list) = 3
        /\ req[c].result.list[3].type = "pie"

\* No candidate of the parsed array passed and the caller got the fallback.
C17_WitnessEmpty ==
    \E c \in Callers :
        /\ BatchParsed(c) /\ req[c].via = "fallback"
        /\ Passing(req[c].cand) = {}

\* ---------------------------------------------------------------------
\* The text functions when the model fails
\* ---------------------------------------------------------------------

\* The sleep after the third failed attempt of caller c ends in this step.
LastSleepEnds(c) ==
    /\ req[c].pc \in {"sleepingBackoff", "sleepingRateLimit"}
    /\ req[c].attempt = MaxRetries - 1
    /\ req'[c].pc # req[c].pc

\* The only model call of analyzeData for caller c fails in this step.
AnalysisFails(c) ==
    /\ fn = "analyzeData" /\ req[c].pc = "calling"
    /\ req'[c].pc # "calling" /\ req'[c].via # "model"

\* C18: when the third attempt of generateResponse has failed the caller
\* gets the fixed apology, and when the model call of analyzeData fails the
\* caller gets its fixed failure text; neither step writes the cache.
C18_FixedTextsUncached ==
    [][\A c \in Callers :
            /\ (fn = "generateResponse" /\ LastSleepEnds(c)) =>
                  /\ req'[c].pc = "returned"
                  /\ req'[c].result = TextResult(ApologyText)
                  /\ req'[c].calls = MaxRetries
                  /\ cache' = cache
            /\ AnalysisFails(c) =>
                  /\ req'[c].pc = "returned"
                  /\ req'[c].result = TextResult(AnalysisFailureText)
                  /\ req'[c].calls = 1
                  /\ cache' = cache]_vars

\* generateResponse returned the apology after three model calls while the
\* cache holds nothing under the fingerprint of the request.
C18_Witness ==
    \E c \in Callers :
        /\ fn = "generateResponse" /\ Returned(c) /\ req[c].calls = MaxRetries
        /\ req[c].result = TextResult(ApologyText)
        /\ KeyOf(req[c]) \notin DOMAIN cache

\* analyzeData returned its failure text after its one model call.
C18_WitnessAnalysis ==
    \E c \in Callers :
        /\ fn = "analyzeData" /\ Returned(c) /\ req[c].calls = 1
        /\ req[c].result = TextResult(AnalysisFailureText)
        /\ cache = <<>>

\* ---------------------------------------------------------------------
\* The attempt that succeeds
\* ---------------------------------------------------------------------

\* The attempt of caller c that is awaited succeeds in this step.
AttemptSucceeds(c) ==
    /\ req[c].pc = "calling"
    /\ req'[c].pc = "returned" /\ req'[c].via \in {"model", "regex"}

\* C19: every attempt before the awaited one has failed (the model calls
\* issued so far are the attempts so far); the attempt that succeeds calls
\* the model no more, sleeps no more and returns; and a call that has
\* returned takes no further step: the model calls of a request are as many
\* as the index of its first successful attempt.
C19_ReturnsOnFirstSuccess ==
    /\ [](\A c \in Callers :
            req[c].pc \in {"calling", "sleepingBackoff", "sleepingRateLimit"}
                => req[c].calls = req[c].attempt + 1)
    /\ [][\A c \in Callers :
            /\ AttemptSucceeds(c) =>
                  /\ req'[c].calls = req[c].attempt + 1
                  /\ req'[c].sleepFor = 0
            /\ Returned(c) => req'[c] = req[c]]_vars

\* generateVisualization returned a chart of the model from its second
\* attempt, after two model calls.
C19_Witness ==
    \E c \in Callers :
        /\ fn = "generateVisualization" /\ Returned(c) /\ req[c].via = "model"
        /\ req[c].calls = 2

\* ---------------------------------------------------------------------
\* One attempt at a time
\* ---------------------------------------------------------------------

Sleeping(rec) == rec.pc \in {"sleepingBackoff", "sleepingRateLimit"}

\* C20: a request issues its model calls one at a time: a call is issued only
\* by the step that enters the function (the first attempt) or by the step
\* that ends a sleep (the next attempt), never while a call of the request
\* is awaited; and a sleep begins only when the awaited call has failed.
C20_AttemptsInSequence ==
    [][\A c \in Callers :
          /\ req'[c].calls # req[c].calls =>
                /\ req'[c].calls = req[c].calls + 1
                /\ req'[c].pc = "calling"
                /\ \/ req[c].pc = "idle" /\ req[c].calls = 0
                   \/ Sleeping(req[c]) /\ req'[c].attempt = req[c].attempt + 1
          /\ (Sleeping(req'[c]) /\ ~Sleeping(req[c])) =>
                /\ req[c].pc = "calling"
                /\ req'[c].lastError # "none"
                /\ req'[c].calls = req[c].calls /\ req'[c].attempt = req[c].attempt
          /\ (req[c].pc = "calling" /\ req'[c].pc = "calling") => req'[c] = req[c]]_vars

\* The third attempt of a request is awaited: two attempts have failed and
\* two sleeps have ended.
C20_Witness ==
    \E c \in Callers :
        /\ req[c].pc = "calling" /\ req[c].attempt = 2 /\ req[c].calls = 3
        /\ req[c].lastError # "none"

\* ---------------------------------------------------------------------
\* Sleeps and attempts
\* ---------------------------------------------------------------------

\* C21: every sleep of the retry loop is followed by a further attempt: a
\* request sleeps at most maxRetries - 1 times, and the failure of its last
\* attempt ends the loop without a sleep.
C21_SleepThenAttempt ==
    [][\A c \in Callers :
          /\ (Sleeping(req[c]) /\ ~Sleeping(req'[c])) => req'[c].pc = "calling"
          /\ (~Sleeping(req[c]) /\ Sleeping(req'[c])) =>
                req[c].attempt + 1 < MaxRetries]_vars

\* C22: a rate limit leaves the backoff value as it is, from the failure
\* through the sleep to the next attempt; only the other failures double it,
\* so that whenever an attempt of the loop is awaited the value is
\* 1000 * 2^k ms, k being the failures of the request so far that were no
\* rate limit.
C22_DelayCountsOtherFailures ==
    /\ [](\A c \in Callers :
            (HasRetryLoop(fn) /\ req[c].pc = "calling") =>
                req[c].retryDelay = InitialRetryDelay * 2 ^ req[c].otherFails)
    /\ [][\A c \in Callers :
            /\ RateLimited(c) =>
                  /\ req'[c].retryDelay = req[c].retryDelay
                  /\ req'[c].otherFails = req[c].otherFails
            /\ (RateLimitSleepEnds(c) /\ req'[c].pc = "calling") =>
                  req'[c].retryDelay = req[c].retryDelay]_vars

\* The third attempt is awaited after one rate limit and one other failure:
\* the backoff value stands at 2000 ms.
C22_Witness ==
    \E c \in Callers :
        /\ HasRetryLoop(fn) /\ req[c].pc = "calling" /\ req[c].attempt = 2
        /\ req[c].otherFails = 1 /\ req[c].retryDelay = 2000

\* ---------------------------------------------------------------------
\* Answers without usable JSON
\* ---------------------------------------------------------------------

\* The call of caller c that is awaited comes back in this step with a text
\* that has no JSON span, or one whose repaired span does not parse.
NoJsonAnswer(c) ==
    /\ fn \in {"generateVisualization", "generateAutoVisualizations"}
    /\ req[c].pc = "calling" /\ req'[c].pc # "calling"
    /\ req'[c].answer \in {"noSpan", "noParse"}

\* The attempt of caller c is over as a failure that is no rate limit: no
\* call is added and the current backoff value is slept.
FailsIntoBackoff(c) ==
    /\ req'[c].pc = "sleepingBackoff"
    /\ req'[c].calls = req[c].calls /\ req'[c].attempt = req[c].attempt
    /\ req'[c].otherFails = req[c].otherFails + 1
    /\ req'[c].sleepFor = req[c].retryDelay
    /\ cache' = cache

\* The sleep that follows an answer without usable JSON ends in this step.
NoJsonSleepEnds(c) ==
    /\ req[c].pc = "sleepingBackoff" /\ req[c].answer \in {"noSpan", "noParse"}
    /\ req'[c].pc # "sleepingBackoff"

NoSurvivor(c) ==
    /\ fn = "generateAutoVisualizations"
    /\ req[c].pc = "calling" /\ req'[c].pc # "calling"
    /\ req'[c].answer = "parsed"
    /\ \A i \in 1..Len(req'[c].cand) : ~req'[c].cand[i].isNull
    /\ Passing(req'[c].cand) = {}

CompletesFromModel(c) ==
    /\ req[c].pc = "calling" /\ req'[c].pc = "returned"
    /\ req'[c].via \in {"model", "regex"}
    /\ req'[c].answer \in {"parsed", "noParse", "text"}

Expired(key) == key \in DOMAIN cache /\ now - cache[key].timestamp >= CacheTtl(fn)

\* C26: no step removes a cache entry: the fingerprints present only grow;
\* the step in which a caller enters and looks its fingerprint up leaves the
\* cache as it is, expired entry or not; and an entry changes only when a
\* request of the same fingerprint completes with a result of the model.
C26_EntriesStay ==
    [][  /\ \A key \in DOMAIN cache : key \in DOMAIN cache'
         /\ \A c \in Callers :
               (req[c].pc = "idle" /\ req'[c].pc # "idle") => cache' = cache
         /\ \A key \in DOMAIN cache :
               cache'[key] # cache[key] =>
                   \E c \in Callers : CompletesFromModel(c) /\ KeyOf(req[c]) = key
      ]_vars

\* An entry is expired and still in the cache while a request of its
\* fingerprint awaits the model.
C26_Witness ==
    \E c \in Callers :
        /\ HasCache(fn) /\ req[c].pc = "calling" /\ req[c].calls = 1
        /\ Expired(KeyOf(req[c]))

\* ---------------------------------------------------------------------
\* Cache hits
\* ---------------------------------------------------------------------

\* Caller c is answered from the cache in this step.
HitStep(c) ==
    req[c].pc = "idle" /\ req'[c].pc = "returned" /\ req'[c].via = "cache"

\* C27: a cache hit hands out the stored result and changes nothing else: no
\* model call, no entry written, no timestamp moved; the entry a request
\* was answered from still carries the time of the request that wrote it,
\* so that it expires TTL after that time.
C27_HitChangesNothing ==
    /\ [](\A c \in Callers :
            (Returned(c) /\ req[c].via = "cache") =>
                LET key == KeyOf(req[c])
                IN  \E o \in Callers \ {c} :
                        /\ Wrote(o, key) /\ cache[key] = EntryOf(o)
                        /\ req[c].doneAt - cache[key].timestamp < CacheTtl(fn)
                        /\ Expired(key) <=> now >= req[o].doneAt + CacheTtl(fn))
    /\ [][\A c \in Callers :
            HitStep(c) =>
                /\ cache' = cache
                /\ req'[c].calls = 0
                /\ req'[c].result = cache[KeyOf(req'[c])].value]_vars

\* An entry written at time 0 was read half a TTL later and is expired at
\* TTL, half a TTL after the read.
C27_Witness ==
    \E c \in Callers :
        /\ Returned(c) /\ req[c].via = "cache"
        /\ cache[KeyOf(req[c])].timestamp = 0
        /\ req[c].doneAt = TickLength(fn)
        /\ now = CacheTtl(fn) /\ Expired(KeyOf(req[c]))

\* ---------------------------------------------------------------------
\* The locals of the retry loop
\* ---------------------------------------------------------------------

\* C28: the counter, the delay and the last error of the loop belong to one
\* call: a call that goes on to the model starts at attempt 0 (the first)
\* with a delay of 1000 ms and no last error, whatever the other caller has
\* been through or is in; and a step of one caller leaves the record of the
\* other as it is.
C28_RetryStatePerCall ==
    [][\A c \in Callers :
          /\ (req[c].pc = "idle" /\ req'[c].pc = "calling") =>
                /\ req'[c].attempt = 0 /\ req'[c].calls = 1
                /\ req'[c].retryDelay = InitialRetryDelay
                /\ req'[c].lastError = "none" /\ req'[c].otherFails = 0
          /\ req'[c] # req[c] => \A o \in Callers \ {c} : req'[o] = req[o]]_vars

\* One caller awaits its first attempt with a delay of 1000 ms while the
\* other, after two failures, sleeps with a delay of 2000 ms.
C28_Witness ==
    \E c, o \in Callers :
        /\ HasRetryLoop(fn)
        /\ req[c].pc = "calling" /\ req[c].attempt = 0
        /\ req[c].retryDelay = InitialRetryDelay /\ req[c].lastError = "none"
        /\ req[o].pc = "sleepingBackoff" /\ req[o].attempt = 1
        /\ req[o].retryDelay = 2 * InitialRetryDelay

\* ---------------------------------------------------------------------
\* Callers do not wait for each other
\* ---------------------------------------------------------------------

\* The call of caller c awaits a model call or the timer of a sleep.
Suspended(c) == req[c].pc \in {"calling", "sleepingBackoff", "sleepingRateLimit"}

\* C29: while the call of one caller awaits its model call or its sleep,
\* the other caller is held up by nothing: it can enter the function if it
\* has not yet, and get the answer of its own model call if it awaits one.
C29_OthersGoOn ==
    \A c \in Callers : \A o \in Callers \ {c} :
        Suspended(c) =>
            /\ req[o].pc = "idle" => ENABLED Call(o, Inputs(fn))
            /\ req[o].pc = "calling" => ENABLED ModelReplies(o, Replies(fn))

\* One call still awaits the sleep after its first failure; the other has
\* called the model once and returned its answer.
C29_Witness ==
    \E c, o \in Callers :
        /\ req[c].pc = "sleepingBackoff" /\ req[c].attempt = 0
        /\ Returned(o) /\ req[o].via = "model" /\ req[o].calls = 1
        /\ ~SameInput(req[c], req[o])

\* ---------------------------------------------------------------------
\* Termination
\* ---------------------------------------------------------------------

\* The caller that runs alone, where every awaited model call comes back
\* with a text or an error and every timer of a sleep fires.
SpecLive ==
    /\ Init /\ [][NextSingle]_vars
    /\ WF_vars(ModelReplies("c1", SingleReplies(fn)))
    /\ WF_vars(Wake("c1"))

\* C30: a call of generateVisualization, generateAutoVisualizations or
\* generateResponse that has been entered eventually returns, whatever the
\* model answers, as long as each model call ends and each sleep ends.
C30_EventuallyReturns ==
    \A c \in Callers :
        (HasRetryLoop(fn) /\ req[c].pc # "idle") ~> Returned(c)

\* The call returned after three failed attempts, of which rate limits and
\* other failures were part.
C30_Witness ==
    \E c \in Callers :
        /\ HasRetryLoop(fn) /\ Returned(c) /\ req[c].calls = MaxRetries
        /\ req[c].via \in {"catch", "fallback"}
        /\ ~req[c].allMalformed

\* ---------------------------------------------------------------------
\* The same request twice at the same time
\* ---------------------------------------------------------------------

\* Caller c is past the lookup and has called the model at least once.
InFlight(c) == Suspended(c) /\ req[c].calls >= 1

\* The key of the input of caller c has no live entry.
NoLiveEntry(c) ==
    ~CacheHit(cache, KeyOf(req[c]), now, CacheTtl(fn))

\* C31: when a request of a cached function is in flight and its key has
\* no live entry, the other caller can enter with the same input, misses
\* the cache and starts its own first attempt; while both are in flight a
\* step of one leaves the record of the other alone, the answer to its own
\* model call is open to each, neither returns from the cache, a result
\* made from the model is made from its own answer, and a write leaves the
\* entry of the key as the writer's whatever the other wrote before.
C31_TwinsRunApart ==
    /\ [](\A c \in Callers : \A o \in Callers \ {c} :
            (HasCache(fn) /\ InFlight(c)) =>
                /\ (req[o].pc = "idle" /\ NoLiveEntry(c))
                       => ENABLED Call(o, {<<req[c].q, req[c].d>>})
                /\ (req[o].pc = "calling" /\ SameInput(req[c], req[o]))
                       => ENABLED ModelReplies(o, Replies(fn)))
    /\ [][\A c \in Callers : \A o \in Callers \ {c} :
            (HasCache(fn) /\ InFlight(o) /\ req'[c] # req[c]
                /\ SameInput(req[o], req'[c])) =>
                /\ req'[o] = req[o]
                /\ (CallStep(c) /\ NoLiveEntry(o))
                       => (req'[c].pc = "calling" /\ req'[c].calls = 1)
                /\ (~CallStep(c) /\ Returned(c)') =>
                       /\ req'[c].via # "cache"
                       /\ req'[c].via \in {"model", "regex"} =>
                              /\ \E reply \in Replies(fn) :
                                     /\ reply.kind = "text"
                                     /\ Attempted(fn, reply).ok
                                     /\ Attempted(fn, reply).cand = req'[c].cand
                                     /\ Attempted(fn, reply).result = req'[c].result
                              /\ cache'[KeyOf(req[c])] = EntryOf(c)'
                       /\ req'[c].via \notin {"model", "regex"} => cache' = cache]_vars

\* Both callers missed with the same input; one has returned the model's
\* answer and written it, the other is at its second model call while that
\* entry is still live.
C31_Witness ==
    \E c, o \in Callers :
        /\ HasCache(fn) /\ SameInput(req[c], req[o])
        /\ req[c].pc = "calling" /\ req[c].calls = 2
        /\ Wrote(o, KeyOf(req[o])) /\ cache[KeyOf(req[o])] = EntryOf(o)
        /\ now - req[o].doneAt < CacheTtl(fn)

\* ---------------------------------------------------------------------
\* What the fingerprint is made of
\* ---------------------------------------------------------------------

\* The number of characters of the serialized data that enter the key.
PrefixLength(f) == IF f = "generateAutoVisualizations" THEN 200 ELSE 100

\* The start of the serialization of each data sample, per function.
DataPrefixes ==
    [f \in Functions |->
        [d \in DOMAIN DataSample \ {"undefined"} |->
            Slice(JsonStringify(DataSample[d]), PrefixLength(f))]
        @@ <<>>]
    @@ <<>>

\* The calls a and b have the same request text (none for
\* generateAutoVisualizations) and data whose serializations start alike.
SameFingerprintParts(a, b) ==
    /\ a.d # "undefined" /\ b.d # "undefined"
    /\ fn # "generateAutoVisualizations" => a.q = b.q
    /\ DataPrefixes[fn][a.d] = DataPrefixes[fn][b.d]

\* C32: two calls of a cached function with the same request text whose
\* serialized data agree on the first 100 characters (200 for
\* generateAutoVisualizations) have the same cache key, whatever follows in
\* the data; when one of them wrote its result under that key less than a
\* TTL ago, the other, called with different data, returns that result
\* without calling the model.
C32_KeyFromRequestAndPrefix ==
    /\ [](\A c, o \in Callers :
            (HasCache(fn) /\ req[c].pc # "idle" /\ req[o].pc # "idle"
                /\ SameFingerprintParts(req[c], req[o]))
                => KeyOf(req[c]) = KeyOf(req[o]))
    /\ [][\A c, o \in Callers :
            (CallStep(c) /\ HasCache(fn)
                /\ SameFingerprintParts(req'[c], req[o])
                /\ req'[c].d # req[o].d
                /\ Wrote(o, KeyOf(req[o]))
                /\ now - req[o].doneAt < CacheTtl(fn)) =>
                /\ Returned(c)' /\ req'[c].via = "cache"
                /\ req'[c].calls = 0
                /\ req'[c].result = req[o].result]_vars

\* A call with the one-field data was answered from the entry that a call
\* with the three-field data of the same first 200 characters had written.
C32_Witness ==
    \E c, o \in Callers :
        /\ HasCache(fn) /\ req[o].d = "long" /\ req[c].d = "longOnly"
        /\ req[o].q = req[c].q
        /\ Wrote(o, KeyOf(req[o]))
        /\ Returned(c) /\ req[c].via = "cache" /\ req[c].calls = 0
        /\ req[c].result = req[o].result
        /\ JsonStringify(DataOf(req[c])) # JsonStringify(DataOf(req[o]))

\* ---------------------------------------------------------------------
\* The span of a single result
\* ---------------------------------------------------------------------

\* The character ch occurs in the text s.
Occurs(ch, s) == \E i \in 1..Len(s) : s[i] = ch

\* The text has a "}" somewhere after its first "{".
ClosesAfterOpen(text) ==
    \E i, j \in 1..Len(text) :
        /\ i < j /\ text[i] = "{" /\ text[j] = "}"
        /\ \A k \in 1..(i - 1) : text[k] # "{"

\* C33: the extraction of a single result fails exactly when the text has
\* no "{", has no "}", or has its last "}" before its first "{"; otherwise
\* the span starts with the first "{" of the text and ends with its last
\* "}": the text is the span between a part without "{" and a part
\* without "}".
C33_FirstOpenToLastClose ==
    \A c \in Callers :
        (Returned(c) /\ req[c].via \in {"span", "noSpan"}) =>
            LET text == req[c].q
                span == req[c].result.text
            IN  /\ req[c].via = "noSpan" <=>
                       (\/ ~Occurs("{", text) \/ ~Occurs("}", text)
                        \/ ~ClosesAfterOpen(text))
                /\ req[c].via = "span" =>
                       \E i, j \in 1..Len(text) :
                           /\ i < j /\ span = SubSeq(text, i, j)
                           /\ text[i] = "{" /\ text[j] = "}"
                           /\ ~Occurs("{", SubSeq(text, 1, i - 1))
                           /\ ~Occurs("}", SubSeq(text, j + 1, Len(text)))

\* The text "}{}}" gave the span "{}}", and the text "}a{" gave none.
C33_Witness ==
    \E c, o \in Callers :
        /\ req[c].via = "span" /\ req[c].q = <<"}", "{", "}", "}">>
        /\ req[c].result.text = <<"{", "}", "}">>
        /\ req[o].via = "noSpan" /\ req[o].q = <<"}", "a", "{">>

\* ---------------------------------------------------------------------
\* The replacements of the repair, one by one
\* ---------------------------------------------------------------------

\* C34: each replacement of cleanJsonString, run a second time on its own
\* result, changes nothing, and the replacements run in any order on a text
\* give the text that cleanJsonString gives.
C34_RulesIdempotentAnyOrder ==
    \A c \in Callers :
        (req[c].pc = "repairing" \/ req[c].via = "rules") =>
            /\ \A n \in 1..Len(CleanSteps) :
                    LET once == ApplyStep(req[c].result.text, n)
                    IN  ApplyStep(once, n) = once
            /\ Returned(c) =>
                    req[c].result.text = CleanJsonString(RuleTexts[req[c].q])

\* ---------------------------------------------------------------------
\* The charts of the batch fallback
\* ---------------------------------------------------------------------

\* One of the labels reads as a year, a year and month, or a date.
SomeDateLike(labels) == \E k \in 1..Len(labels) : IsDateLike(labels[k])

\* C35 as stated, its cases read in their order: every visualization of the
\* batch fallback is a pie or a donut when it has at most 5 categories,
\* else a line chart when its category values read as years or dates, and
\* a bar chart otherwise.
C35_KindByCountOrDates ==
    \A c \in Callers :
        BatchFallbackReturned(c) =>
            \A k \in 1..Len(req[c].result.list) :
                LET labels == req[c].result.list[k].labels.items
                    kind   == req[c].result.list[k].type
                    dates  == \A j \in 1..Len(labels) : IsDateLike(labels[j])
                IN  /\ Len(labels) <= 5 => kind \in {"pie", "donut"}
                    /\ (Len(labels) > 5 /\ dates) => kind = "line"
                    /\ (Len(labels) > 5 /\ ~dates) => kind = "bar"

\* C35 as amended: every visualization of the batch fallback is a pie or a
\* donut when it has at most 5 categories (pie for an even combination,
\* donut for an
\* odd one, seen where no combination was skipped), dates or not; with
\* more than 5 categories it is a line chart when at least one of them
\* reads as a year or a date, and a bar chart otherwise.
C35_KindByCountThenDate ==
    \A c \in Callers :
        BatchFallbackReturned(c) =>
            LET list  == req[c].result.list
                tried == Min(5, Len(LimitedCategoricalFields(c))
                                * Len(LimitedNumericFields(c)))
            IN  \A k \in 1..Len(list) :
                    LET labels == list[k].labels.items
                    IN  /\ Len(labels) <= 5 => list[k].type \in {"pie", "donut"}
                        /\ (Len(labels) <= 5 /\ Len(list) = tried) =>
                               list[k].type = IF k % 2 = 1 THEN "pie" ELSE "donut"
                        /\ (Len(labels) > 5 /\ SomeDateLike(labels)) =>
                               list[k].type = "line"
                        /\ (Len(labels) > 5 /\ ~SomeDateLike(labels)) =>
                               list[k].type = "bar"

\* Six categories, one of them 2020-01: a line chart.
C35_Witness ==
    /\ BatchFallbackReturned("c1") /\ req["c1"].d = "manyYears"
    /\ Len(req["c1"].result.list) = 1
    /\ req["c1"].result.list[1].type = "line"
    /\ Len(req["c1"].result.list[1].labels.items) = 6

\* The sum of Number(record[numField]) || 0 over the records whose value of
\* catField is `category`.
CategorySum(data, catField, numField, category) ==
    LET part(i) == IF StrictEquals(Get(data.rows[i], catField), category)
                   THEN NumberOrZero(Get(data.rows[i], numField)) ELSE 0
        sumTo[i \in 0..Len(data.rows)] == IF i = 0 THEN 0 ELSE sumTo[i - 1] + part(i)
    IN  sumTo[Len(data.rows)]

\* The visualization `viz` is the chart of the fields catField and numField:
\* its labels are the first 8 distinct truthy values of catField, as strings
\* and in the order of their first occurrence, and its value at each label
\* is the sum of numField over the records of that category.
ChartOfFields(viz, data, catField, numField) ==
    LET column == ColumnOf(data, catField)
        firsts == FirstOccurrences(column, Truthy)
    IN  /\ viz.labels.k = "array" /\ viz.values.k = "array"
        /\ LabelsAre(viz.labels.items, column, firsts, 8)
        /\ Len(viz.values.items) = Len(viz.labels.items)
        /\ \A i \in firsts :
              LET rank == Cardinality({j \in firsts : j <= i})
              IN  rank <= 8 =>
                     viz.values.items[rank]
                         = CategorySum(data, catField, numField, column[i])

\* C36: the list of the batch fallback has at most min(5, C * N)
\* visualizations for C categorical and N numeric fields, and they are the
\* charts of as many different pairs of a categorical and a numeric field;
\* each has at most 8 labels, the distinct non-empty (truthy) values of its
\* categorical field in first-occurrence order, and as its value at a label
\* the sum of its numeric field over the records of that category.
C36_OneChartPerFieldPair ==
    \A c \in Callers :
        BatchFallbackReturned(c) =>
            LET data == DataOf(req[c])
                cats == LimitedCategoricalFields(c)
                nums == LimitedNumericFields(c)
                list == req[c].result.list
                pairs == (1..Len(cats)) \X (1..Len(nums))
            IN  /\ Len(list) <= Min(5, Len(cats) * Len(nums))
                /\ \A k \in 1..Len(list) : Len(list[k].labels.items) <= 8
                /\ list # <<>> =>
                      \E pair \in [1..Len(list) -> pairs] :
                          /\ \A j, k \in 1..Len(list) : j # k => pair[j] # pair[k]
                          /\ \A k \in 1..Len(list) :
                                ChartOfFields(list[k], data, cats[pair[k][1]],
                                              nums[pair[k][2]])

\* Two categorical and two numeric fields: four charts; the first has the
\* names n and m with the totals 7 and 1.
C36_Witness ==
    /\ BatchFallbackReturned("c1") /\ req["c1"].d = "twoFields"
    /\ Len(req["c1"].result.list) = 4
    /\ req["c1"].result.list[1].labels.items = << <<"n">>, <<"m">> >>
    /\ req["c1"].result.list[1].values.items = <<7, 1>>

\* ---------------------------------------------------------------------
\* The classification of the fields
\* ---------------------------------------------------------------------

\* The data of the call is an array whose first record is an object.
HasFirstRecord(rec) ==
    /\ IsArray(DataOf(rec)) /\ Len(DataOf(rec).rows) > 0
    /\ ~FirstRowNull(DataOf(rec))

\* C39: wherever a call classifies the fields of the first record, no field
\* is both numeric and categorical: a field is numeric when its value in the
\* first record is coercible to a number and is not the empty string, and
\* categorical when that value is a string and the field is not numeric;
\* this holds of the classification of generateAutoVisualizations and of
\* that of generateFallbackVisualization, whose chart a call returned.
C39_NoFieldInBothSets ==
    \A c \in Callers :
        (req[c].pc # "idle" /\ HasFirstRecord(req[c])) =>
            LET first == DataOf(req[c]).rows[1]
            IN  /\ fn = "generateAutoVisualizations" =>
                      \A k \in {first.fields[i].key : i \in 1..Len(first.fields)} :
                          LET v == Get(first, k)
                              numeric == ~IsNaN(ToNumber(v)) /\ v # EmptyString
                          IN  /\ InSeq(k, NumericFields(first)) <=> numeric
                              /\ InSeq(k, CategoricalFields(first))
                                    <=> (TypeOf(v) = "string" /\ ~numeric)
                /\ (fn = "generateVisualization" /\ Returned(c)
                        /\ req[c].via = "catch") =>
                      \A k \in {first.fields[i].key : i \in 1..Len(first.fields)} :
                          ~(/\ InSeq(k, FallbackNumericFields(first))
                            /\ InSeq(k, FallbackCategoricalFields(first)))

\* ---------------------------------------------------------------------
\* One chat request at a time
\* ---------------------------------------------------------------------

\* The ways a run of handleSubmit ends.
RunEnds == {"textAnswer", "visualizationCreated", "existingVisualization",
            "error", "rateLimited"}

\* C37: a submission while isLoading or isRateLimited is true starts no run
\* and changes nothing of the component; at most one run of handleSubmit
\* awaits a request, and isLoading is true exactly while one does; a run
\* that ends, on whichever path, leaves isLoading false.
C37_OneRequestAndLoadingReset ==
    /\ [](Cardinality(RunsInFlight(req)) <= 1)
    /\ [](req.isLoading <=> RunsInFlight(req) # {})
    /\ [][(req.isLoading \/ req.isRateLimited) =>
            \A i \in 1..MaxSubmits : req.run[i] = "unused" => req'.run[i] = "unused"]_vars
    /\ [][\A i \in 1..MaxSubmits :
            (req.run[i] \notin RunEnds /\ req'.run[i] \in RunEnds)
                => ~req'.isLoading]_vars

\* Two requests for a chart failed, the second being answered in text, and
\* the third ended at once with the existing visualization; a submission
\* was ignored on the way and isLoading is false again.
C37_Witness ==
    /\ req.run = <<"error", "textAnswer", "existingVisualization">>
    /\ ~req.isLoading /\ req.ignored > 0

\* ---------------------------------------------------------------------
\* The sessions of the webhook
\* ---------------------------------------------------------------------

\* The step serves an accepted request of the kind op.
Serves(op) ==
    /\ req'.served = req.served + 1
    /\ req'.last.op = op /\ req'.last.status = 200

\* C38: a PUT for p replaces the session of p and leaves the session of
\* every other number as it was; a POST changes no session; a POST from s
\* is processed with the data of the latest PUT for s, or with no session
\* data when there was none.
C38_SessionsPerSender ==
    /\ [][Serves("PUT") =>
            \A k \in SessionKeys \ {req'.last.phoneNumber} :
                OwnSessionOrNull(cache', k) = OwnSessionOrNull(cache, k)]_vars
    /\ [][Serves("POST") => cache' = cache]_vars
    /\ [][Serves("POST") =>
            req'.last.sessionData =
                IF req.latestPut[req'.last.from] = "none" THEN "null"
                ELSE req.latestPut[req'.last.from]]_vars

====
